---- MODULE Spec2Model ----
(***************************************************************************)
(* Element cache (ElementCache), cache manager (CacheManager), validator /  *)
(* differ and resolver (ElementHelper.resilient_locate) of                 *)
(* browser-use-extension, as state machines.                               *)
(*                                                                         *)
(* Spec runs the manager on a file system and a browser that work;         *)
(* SpecStore and SpecIO let file operations and browser calls fail.        *)
(*                                                                         *)
(* Strings that the code splits or joins are modelled by their parts:      *)
(*   - a URL is [base, segs]: segs is the sequence of '?'-introduced       *)
(*     parts, each a sequence of <<key, value>> pairs joined by '&';       *)
(*   - a class attribute is the sequence of its space separated tokens;    *)
(*   - a CSS selector is a record of its components.                       *)
(* A python dict is a function over its keys; d.get(k) is DictGet(d, k),   *)
(* a sequence holding the value, or <<>> when the key is missing (None).   *)
(***************************************************************************)
EXTENDS Integers, Sequences, FiniteSets, TLC

VARIABLES
    cache,            \* ElementCache.cache: cache key -> element dict (memory tier)
    metadata,         \* ElementCache.metadata: cache key -> index record
    metadata_file,    \* cache_dir/metadata.json: <<>> when missing, <<dict>>, or torn
    cache_files,      \* cache_dir/<md5(key)>.json: cache key -> file content
    now,              \* time.time()
    page_url,         \* page.url of the current page
    selector_map,     \* dom_state.selector_map of the current page
    last,             \* the operation that ran last, and what it did
    observed,         \* <<key, version>> seen after the latest getElements
    \* validate_cache, one sample after the other
    v_size,           \* CacheManager.validation_sample_size
    v_count,          \* len(cached_elements)
    v_pc,             \* "loop", "done" or "raised"
    v_outcomes,       \* outcome of the live lookup of each sample so far
    valid_count,      \* local valid_count
    v_result,         \* the value validate_cache returned
    \* update_cache_with_diff on one pair of element dicts
    d_old, d_fresh, d_out,
    \* _is_element_modified on one pair of element entries
    m_old, m_new, m_out,
    \* the cache keys of two getElements calls on two page URLs
    k_first, k_second, k_arg, k_keys,
    \* ElementHelper.resilient_locate, one strategy invocation after the other
    r_params,         \* params: which of index, selector, role, text it carries
    r_max,            \* max_attempts
    r_pc,             \* "idle", "index", "loop", "done" (returned) or "blocked"
    r_attempt,        \* attempt of line 366
    r_pos,            \* position of the next strategy in strategies
    r_calls,          \* the strategy invocations so far, in order
    r_result,         \* <<index>> once an index is returned; <<>> stands for None
    r_sleeps,         \* the asyncio.sleep(1) of line 377 awaited so far
    r_env,            \* how the browser answered the latest step: "ok" or the call that failed
    r_faulted,        \* a live operation has failed since the call began
    \* store_elements of one instance, and the get_elements of another
    \* instance on the same directory
    w_pc,             \* "idle", or "open": the per-key file is open for writing
    w_key,            \* the cache key being written
    w_elements,       \* the element set being written
    w_prev,           \* <<set>> the file held when it was opened, <<>> for none
    p_seen,           \* <<[key, elements]>> the other instance's get_elements just returned
    \* two get_elements_with_cache tasks of one manager on one event loop
    c_pc,             \* task -> the await the task is at, or "done"
    c_force,          \* task -> force_refresh
    c_local,          \* task -> its locals: params, cached_elements, elements
    c_ret,            \* task -> <<elements>> once it has returned
    c_start,          \* the store when the tasks were created
    \* validate_cache on a cached set whose entries each have a live state
    v_indices,        \* list(cached_elements.keys()): the handles in insertion order
    v_live,           \* handle -> what the live lookup of its selector gives
    \* get_dom_element_by_index_with_cache of the extended browser context
    x_index,          \* index of the lookup
    x_out,            \* how the lookup ended: from the cache, from the original method, or raised
    \* resilient_click_action, input_text_action, element_diagnostic_action up to their ActionResult
    a_out,            \* <<[action, params, located, error]>> of the latest action call
    \* a second ElementCache instance on the same cache directory
    b_cache,          \* ElementCache.cache of the second instance
    b_metadata,       \* ElementCache.metadata of the second instance
    b_out             \* <<[key, elements, info]>> the second instance read last

storeVars == <<cache, metadata, metadata_file, cache_files>>
pageVars == <<page_url, selector_map>>
validateVars == <<v_size, v_count, v_pc, v_outcomes, valid_count, v_result>>
diffVars == <<d_old, d_fresh, d_out>>
modVars == <<m_old, m_new, m_out>>
keyVars == <<k_first, k_second, k_arg, k_keys>>
resolveVars == <<r_params, r_max, r_pc, r_attempt, r_pos, r_calls, r_result,
                 r_sleeps, r_env, r_faulted>>
peerVars == <<w_pc, w_key, w_elements, w_prev, p_seen>>
taskVars == <<c_pc, c_force, c_local, c_ret, c_start>>
sampleVars == <<v_indices, v_live>>
lookupVars == <<x_index, x_out>>
actionVars == <<a_out>>
instVars == <<b_cache, b_metadata, b_out>>
vars == <<cache, metadata, metadata_file, cache_files, now, page_url,
          selector_map, last, observed, v_size, v_count, v_pc, v_outcomes,
          valid_count, v_result, d_old, d_fresh, d_out, m_old, m_new, m_out,
          k_first, k_second, k_arg, k_keys,
          r_params, r_max, r_pc, r_attempt, r_pos, r_calls, r_result,
          r_sleeps, r_env, r_faulted,
          w_pc, w_key, w_elements, w_prev, p_seen,
          c_pc, c_force, c_local, c_ret, c_start,
          v_indices, v_live,
          x_index, x_out,
          a_out,
          b_cache, b_metadata, b_out>>

----------------------------------------------------------------------------
(* Bounds *)

MaxNow == 86401          \* the clock stops here
MaxVersion == 2          \* no store_elements beyond this version
MaxSampleSize == 10      \* largest validation_sample_size tried
MaxAttempts == 3         \* largest max_attempts tried
MaxElements == 2         \* most elements of a generated page

----------------------------------------------------------------------------
(* Python values *)

EmptyDict == [k \in {} |-> k]

DictGet(d, k) == IF k \in DOMAIN d THEN <<d[k]>> ELSE <<>>

\* d[k] = v
DictSet(d, k, v) == [x \in DOMAIN d \cup {k} |-> IF x = k THEN v ELSE d[x]]

\* del d[k]
DictDel(d, k) == [x \in DOMAIN d \ {k} |-> d[x]]

----------------------------------------------------------------------------
(* URLs and cache keys *)

\* the parameter names of the model, in the order sorted() gives them
ParamOrder == <<"a", "b">>

Url(base, segs) == [base |-> base, segs |-> segs]

UrlPlain == Url("x", <<>>)                               \* x
UrlA == Url("x", << << <<"a", "1">> >> >>)                \* x?a=1

\* what the caller passes as url
Urls == {UrlPlain}

\* where the browser can be
PageUrls == {UrlPlain, UrlA}

RECURSIVE DictOfPairs(_)
\* params[key] = value for each pair in turn: a later pair overrides
DictOfPairs(pairs) ==
    IF pairs = <<>> THEN EmptyDict
    ELSE LET n == Len(pairs)
         IN DictSet(DictOfPairs(SubSeq(pairs, 1, n - 1)), pairs[n][1], pairs[n][2])

\* CacheManager._extract_url_params, for a URL with at most one '?'
_extract_url_params(url) ==
    IF url.segs = <<>> THEN EmptyDict ELSE DictOfPairs(url.segs[1])

\* sorted(params.items())
SortedItems(params) ==
    LET ks == SelectSeq(ParamOrder, LAMBDA k : k \in DOMAIN params)
    IN [i \in 1..Len(ks) |-> <<ks[i], params[ks[i]]>>]

\* ElementCache._generate_cache_key: url, or url + "?" + the sorted pairs
_generate_cache_key(url, params) ==
    IF params = EmptyDict THEN url
    ELSE [url EXCEPT !.segs = Append(@, SortedItems(params))]

\* the parameter dicts a caller of the store can pass
ParamDicts == {_extract_url_params(u) : u \in PageUrls}

----------------------------------------------------------------------------
(* Element Store: ElementCache *)

\* how the outside world answers during one call: the file system
\* (open/json.dump, open/json.load, os.remove) and the browser
\* (get_current_page, get_state).  A write can succeed, raise before the
\* file is touched ("fail"), or raise after open(..., 'w') truncated it
\* ("torn").
EnvOk == [meta_write |-> "ok", file_write |-> "ok", meta_read |-> "ok",
          file_read |-> "ok", remove |-> "ok",
          get_current_url |-> "ok", validate_page |-> "ok", get_state |-> "ok"]

\* the store of one ElementCache instance together with its cache directory
StoreState == [cache |-> cache, metadata |-> metadata,
               metadata_file |-> metadata_file, cache_files |-> cache_files,
               env |-> EnvOk]

\* metadata.json is <<>> when missing, <<d>> when it holds the JSON text of
\* d, and TornFile when it holds text json.load rejects
TornFile == <<"{", "">>

\* a per-key file holding text json.load rejects
TornRecord == [torn |-> TRUE]

\* with open(file, 'w') as f: json.dump(data, f), inside try/except
WriteJson(old, data, torn, outcome) ==
    CASE outcome = "ok" -> data
      [] outcome = "fail" -> old
      [] outcome = "torn" -> torn

\* ElementCache._save_metadata
_save_metadata(s) ==
    [s EXCEPT !.metadata_file = WriteJson(@, <<s.metadata>>, TornFile, s.env.meta_write)]

\* ElementCache._load_metadata of a new instance: {} unless the file exists
\* and json.load succeeds
_load_metadata(file, outcome) ==
    IF Len(file) = 1 /\ outcome = "ok" THEN file[1] ELSE EmptyDict

\* ElementCache.get_cache_info: the index record, <<>> for {}
get_cache_info(s, url, params) ==
    DictGet(s.metadata, _generate_cache_key(url, params))

\* json.load of the per-key file succeeds
Loads(s, cache_key) ==
    /\ s.env.file_read = "ok"
    /\ "elements" \in DOMAIN s.cache_files[cache_key]

\* a get that returns the durable set and leaves the memory tier cold
get_elements_NoFill(s, url, params) ==
    LET cache_key == _generate_cache_key(url, params)
    IN IF cache_key \in DOMAIN s.cache
       THEN [store |-> s, elements |-> s.cache[cache_key]]
       ELSE IF cache_key \in DOMAIN s.cache_files /\ Loads(s, cache_key)
            THEN [store |-> s, elements |-> s.cache_files[cache_key].elements]
            ELSE [store |-> s, elements |-> EmptyDict]

\* ElementCache.get_elements: [store, elements]
get_elements(s, url, params) ==
    LET cache_key == _generate_cache_key(url, params)
    IN IF cache_key \in DOMAIN s.cache
       THEN [store |-> s, elements |-> s.cache[cache_key]]
       ELSE IF cache_key \in DOMAIN s.cache_files /\ Loads(s, cache_key)
            THEN LET elements == s.cache_files[cache_key].elements
                 IN [store |-> [s EXCEPT !.cache = DictSet(@, cache_key, elements)],
                     elements |-> elements]
            ELSE [store |-> s, elements |-> EmptyDict]

\* a version that starts at 1 and stays there
NextVersionOnce(s, cache_key) ==
    IF cache_key \in DOMAIN s.metadata THEN s.metadata[cache_key].version ELSE 1

\* the version store_elements writes: the previous one plus one
NextVersion(s, cache_key) ==
    (IF cache_key \in DOMAIN s.metadata THEN s.metadata[cache_key].version ELSE 0) + 1

\* str(index) of the selector_map indices
IndexStr == (1 :> "1") @@ (2 :> "2") @@ (3 :> "3")

\* a Python int used as a dict key is written "#i"; str keys are written
\* as they are
IntHandle == (1 :> "#1") @@ (2 :> "#2") @@ (3 :> "#3")

\* the key json.dump writes for a dict key: an int becomes its decimal
\* string, and json.load gives that string back
JsonKey(k) ==
    IF \E i \in DOMAIN IntHandle : IntHandle[i] = k
    THEN IndexStr[CHOOSE i \in DOMAIN IntHandle : IntHandle[i] = k]
    ELSE k

\* json.load(json.dump(d)) for a dict d of JSON values
JsonObject(d) ==
    [h \in {JsonKey(k) : k \in DOMAIN d} |-> d[CHOOSE k \in DOMAIN d : JsonKey(k) = h]]

\* the per-key file after store_elements tried to write cache_data
WriteCacheFile(files, cache_key, cache_data, outcome) ==
    CASE outcome = "ok" ->
            DictSet(files, cache_key, [cache_data EXCEPT !.elements = JsonObject(@)])
      [] outcome = "fail" -> files
      [] outcome = "torn" -> DictSet(files, cache_key, TornRecord)

\* a store whose memory tier follows the durable write: nothing durable,
\* nothing in memory
store_elements_WriteThrough(s, url, elements, params, t) ==
    LET cache_key == _generate_cache_key(url, params)
        record == [url |-> url, timestamp |-> t,
                   element_count |-> Cardinality(DOMAIN elements),
                   version |-> NextVersion(s, cache_key)]
        cache_data == [metadata |-> [url |-> url, timestamp |-> t,
                                     element_count |-> Cardinality(DOMAIN elements)],
                       elements |-> elements]
        s1 == [s EXCEPT !.cache = IF s.env.file_write = "ok"
                                  THEN DictSet(@, cache_key, elements) ELSE @,
                        !.metadata = DictSet(@, cache_key, record)]
        s2 == _save_metadata(s1)
    IN [s2 EXCEPT !.cache_files =
                      WriteCacheFile(@, cache_key, cache_data, s.env.file_write)]

\* ElementCache.store_elements at time t
store_elements(s, url, elements, params, t) ==
    LET cache_key == _generate_cache_key(url, params)
        record == [url |-> url, timestamp |-> t,
                   element_count |-> Cardinality(DOMAIN elements),
                   version |-> NextVersion(s, cache_key)]
        cache_data == [metadata |-> [url |-> url, timestamp |-> t,
                                     element_count |-> Cardinality(DOMAIN elements)],
                       elements |-> elements]
        s1 == [s EXCEPT !.cache = DictSet(@, cache_key, elements),
                        !.metadata = DictSet(@, cache_key, record)]
        s2 == _save_metadata(s1)
    IN [s2 EXCEPT !.cache_files =
                      WriteCacheFile(@, cache_key, cache_data, s.env.file_write)]

\* os.remove(cache_file) inside try/except, when the file exists
RemoveFile(files, cache_key, outcome) ==
    IF outcome = "ok" THEN DictDel(files, cache_key) ELSE files

\* ElementCache.clear_cache(url, params) with a url
clear_cache_url(s, url, params) ==
    LET cache_key == _generate_cache_key(url, params)
        s1 == [s EXCEPT !.cache = DictDel(@, cache_key)]
        s2 == IF cache_key \in DOMAIN s1.metadata
              THEN _save_metadata([s1 EXCEPT !.metadata = DictDel(@, cache_key)])
              ELSE s1
    IN [s2 EXCEPT !.cache_files = RemoveFile(@, cache_key, s.env.remove)]

\* ElementCache.clear_cache(): the index is saved empty, then every *.json
\* of the directory is removed, the metadata.json just saved included
clear_cache_all(s) ==
    LET s1 == _save_metadata([s EXCEPT !.cache = EmptyDict, !.metadata = EmptyDict])
    IN IF s.env.remove = "ok"
       THEN [s1 EXCEPT !.metadata_file = <<>>, !.cache_files = EmptyDict]
       ELSE s1

\* ElementCache.__init__ on the same cache directory
new_instance(s) ==
    [s EXCEPT !.cache = EmptyDict,
              !.metadata = _load_metadata(s.metadata_file, s.env.meta_read)]

----------------------------------------------------------------------------
(* The live page: DOM elements, snapshot and selector lookup *)

\* an element of dom_state.selector_map (DOMElementNode)
DomElement(xpath, tag, attrs, text, interactive) ==
    [xpath |-> xpath, tag_name |-> tag, attributes |-> attrs, text |-> text,
     is_visible |-> TRUE, is_interactive |-> interactive]

BtnOk == DomElement("/body/button", "button", ("id" :> "ok"), "OK", TRUE)
BtnGo == DomElement("/body/button", "button", ("id" :> "ok"), "Go", TRUE)
LinkNav == DomElement("/body/a", "a", ("class" :> <<"nav", "top">>), "Home", TRUE)
InputBad == DomElement("/body/input", "input", ("id" :> "1x"), "", TRUE)

\* the pages of the model: nothing interactive; a button and a link; the
\* button with another text and the link gone; an input whose id is no
\* CSS identifier
PageEmpty == EmptyDict
PageFull == (1 :> BtnOk) @@ (2 :> LinkNav)
PageEdited == (1 :> BtnGo)
PageBad == (1 :> InputBad)

SelectorMaps == {PageEmpty, PageFull, PageEdited, PageBad}

\* identifiers that make "#<id>" a selector the browser rejects
BadIdents == {"1x"}

\* the locators dict _fetch_fresh_elements builds for one element
Locators(element) ==
    LET has_xpath == element.xpath # ""
        has_id == "id" \in DOMAIN element.attributes
        has_class == "class" \in DOMAIN element.attributes
        kinds == (IF has_xpath THEN {"xpath"} ELSE {})
                 \cup (IF has_id THEN {"id"} ELSE {})
                 \cup (IF has_class THEN {"css"} ELSE {})
    IN [k \in kinds |->
          CASE k = "xpath" -> element.xpath
            [] k = "id" -> element.attributes["id"]
            [] k = "css" -> <<element.tag_name, element.attributes["class"]>>]

\* the entry _fetch_fresh_elements builds for one element
ElementEntry(element) ==
    [locators |-> Locators(element),
     attributes |-> element.attributes,
     tag_name |-> element.tag_name,
     text |-> element.text,
     is_visible |-> element.is_visible,
     is_clickable |-> element.is_interactive]

\* CacheManager._fetch_fresh_elements on the given selector_map
_fetch_fresh_elements(smap) ==
    [h \in {IndexStr[i] : i \in DOMAIN smap} |->
        ElementEntry(smap[CHOOSE i \in DOMAIN smap : IndexStr[i] = h])]

\* attributes[attr] is present and truthy
Truthy(attributes, attr) ==
    /\ attr \in DOMAIN attributes
    /\ IF attr = "class" THEN attributes[attr] # <<>> ELSE attributes[attr] # ""

\* CacheManager._create_selector_from_cache
_create_selector_from_cache(element_data) ==
    LET attributes == element_data.attributes
        key_attrs == SelectSeq(<<"name", "type", "role", "aria-label">>,
                               LAMBDA a : Truthy(attributes, a))
    IN IF Truthy(attributes, "id")
       THEN [kind |-> "id", id |-> attributes["id"]]
       ELSE [kind |-> "compound",
             tag |-> element_data.tag_name,
             attrs |-> [i \in 1..Len(key_attrs) |->
                           <<key_attrs[i], attributes[key_attrs[i]]>>],
             cls |-> IF Truthy(attributes, "class")
                     THEN <<attributes["class"][1]>> ELSE <<>>]

\* the selector is one the browser cannot parse
SelectorInvalid(selector) ==
    selector.kind = "id" /\ selector.id \in BadIdents

\* the live node matches the selector
SelectorMatches(node, selector) ==
    IF selector.kind = "id"
    THEN DictGet(node.attributes, "id") = <<selector.id>>
    ELSE /\ node.tag_name = selector.tag
         /\ \A i \in 1..Len(selector.attrs) :
               DictGet(node.attributes, selector.attrs[i][1]) = <<selector.attrs[i][2]>>
         /\ \/ selector.cls = <<>>
            \/ /\ "class" \in DOMAIN node.attributes
               /\ \E j \in 1..Len(node.attributes["class"]) :
                     node.attributes["class"][j] = selector.cls[1]

\* page.query_selector(selector) on the live nodes: the lookup raises on a
\* selector it cannot parse, finds a node, or finds none
query_selector(nodes, selector) ==
    IF SelectorInvalid(selector) THEN "error"
    ELSE IF \E n \in nodes : SelectorMatches(n, selector) THEN "found"
    ELSE "missing"

LookupOutcomes == {"found", "missing", "error"}

\* the nodes page.query_selector searches: those of the selector_map
LiveNodes(smap) == {smap[i] : i \in DOMAIN smap}

----------------------------------------------------------------------------
(* Validator: CacheManager.validate_cache *)

\* list(cached_elements.keys()): the handles in the order the snapshot
\* inserted them, that of the indices
KeyList(elements) ==
    SelectSeq(<<"1", "2", "3">>, LAMBDA h : h \in DOMAIN elements)

\* a selection of the entries inserted last
_select_validation_samples_Last(indices, sample_size) ==
    IF Len(indices) <= sample_size THEN indices
    ELSE SubSeq(indices, Len(indices) - sample_size + 1, Len(indices))

\* CacheManager._select_validation_samples
_select_validation_samples(indices, sample_size) ==
    IF Len(indices) <= sample_size THEN indices
    ELSE SubSeq(indices, 1, sample_size)

\* one turn of the loop of validate_cache: valid_count after a lookup that
\* found a node, found none, or raised (the except clause only logs)
CountSample(count, outcome) ==
    IF outcome = "found" THEN count + 1 ELSE count

\* a lookup error that leaves validate_cache as an exception
AfterSampleRaising(outcome) == IF outcome = "error" THEN "raised" ELSE "loop"

\* where validate_cache is after a lookup with that outcome: the try/except
\* keeps it in the loop
AfterSample(outcome) == "loop"

\* a threshold that has to be exceeded
ValidityDecisionStrict(count, samples) ==
    IF samples = 0 THEN FALSE ELSE 10 * count > 7 * samples

\* validity_ratio >= 0.7 of validate_cache. count / samples is the double
\* nearest to the quotient and 0.7 the double nearest to 7/10, so for these
\* sizes the comparison is that of the exact quotient with 7/10.
ValidityDecision(count, samples) ==
    IF samples = 0 THEN FALSE ELSE 10 * count >= 7 * samples

RECURSIVE CountValid(_, _, _)
\* valid_count after the loop over the samples
CountValid(nodes, cached_elements, samples) ==
    IF samples = <<>> THEN 0
    ELSE LET n == Len(samples)
             element_data == cached_elements[samples[n]]
         IN CountSample(CountValid(nodes, cached_elements, SubSeq(samples, 1, n - 1)),
                        query_selector(nodes, _create_selector_from_cache(element_data)))

\* CacheManager.validate_cache against the live nodes
validate_cache(nodes, cached_elements, sample_size) ==
    LET sample_indices == _select_validation_samples(KeyList(cached_elements), sample_size)
    IN ValidityDecision(CountValid(nodes, cached_elements, sample_indices),
                        Len(sample_indices))

----------------------------------------------------------------------------
(* Differ: CacheManager.update_cache_with_diff *)

\* CacheManager._is_element_modified
_is_element_modified(old_element, new_element) ==
    \/ \E attr \in {"xpath", "tag_name", "is_interactive"} :
          DictGet(old_element, attr) # DictGet(new_element, attr)
    \/ \E attr \in {"id", "class", "name", "type"} :
          DictGet(old_element.attributes, attr) # DictGet(new_element.attributes, attr)

\* CacheManager._compute_diff
_compute_diff(old_elements, new_elements) ==
    LET old_keys == DOMAIN old_elements
        new_keys == DOMAIN new_elements
    IN [added |-> new_keys \ old_keys,
        removed |-> old_keys \ new_keys,
        modified |-> {key \in old_keys \cap new_keys :
                         _is_element_modified(old_elements[key], new_elements[key])}]

\* a merge that never deletes
MergeDiffKeepingRemoved(cached_elements, current_elements) ==
    LET diff == _compute_diff(cached_elements, current_elements)
        keys == DOMAIN cached_elements \cup diff.added
    IN [index \in keys |->
          IF index \in diff.added \cup diff.modified
          THEN current_elements[index] ELSE cached_elements[index]]

\* the merge of update_cache_with_diff: updated_cache
MergeDiff(cached_elements, current_elements) ==
    LET diff == _compute_diff(cached_elements, current_elements)
        keys == (DOMAIN cached_elements \cup diff.added) \ diff.removed
    IN [index \in keys |->
          IF index \in diff.added \cup diff.modified
          THEN current_elements[index] ELSE cached_elements[index]]

----------------------------------------------------------------------------
(* Cache Manager: CacheManager.get_elements_with_cache *)

cache_ttl == 86400

validation_sample_size == 3

\* expiry at the age of exactly cache_ttl already
_should_refresh_cache_AtTtl(s, url, params, t) ==
    LET cache_info == get_cache_info(s, url, params)
    IN IF cache_info = <<>> THEN TRUE
       ELSE (t - cache_info[1].timestamp) >= cache_ttl

\* CacheManager._should_refresh_cache at time t
_should_refresh_cache(s, url, params, t) ==
    LET cache_info == get_cache_info(s, url, params)
    IN IF cache_info = <<>> THEN TRUE
       ELSE (t - cache_info[1].timestamp) > cache_ttl

\* what one call of get_elements_with_cache did
CallResult(s, elements, path, snapshots, put_keys) ==
    [store |-> s, elements |-> elements, path |-> path,
     snapshots |-> snapshots, put_keys |-> put_keys, raised |-> FALSE]

\* the call ended with the exception of an await nothing catches
Raised(s, path, snapshots) ==
    [store |-> s, elements |-> EmptyDict, path |-> path,
     snapshots |-> snapshots, put_keys |-> <<>>, raised |-> TRUE]

\* a refresh that lays the snapshot over the set cached before
FullRefreshKeepingOld(s, url, params, smap, t, path) ==
    LET fresh == _fetch_fresh_elements(smap)
        old == get_elements(s, url, params).elements
        elements == [h \in DOMAIN fresh \cup DOMAIN old |->
                        IF h \in DOMAIN fresh THEN fresh[h] ELSE old[h]]
    IN CallResult(store_elements(s, url, elements, params, t), elements, path, 1,
                  <<_generate_cache_key(url, params)>>)

\* a refresh that returns the snapshot and stores nothing
FullRefreshUnstored(s, url, params, smap, t, path) ==
    CallResult(s, _fetch_fresh_elements(smap), path, 1, <<>>)

\* a refresh that stores the snapshot, then again what a second snapshot
\* gives
FullRefreshTwice(s, url, params, smap, t, path) ==
    LET elements == _fetch_fresh_elements(smap)
        once == store_elements(s, url, elements, params, t)
    IN IF s.env.get_state = "raise" THEN Raised(s, path, 1)
       ELSE CallResult(store_elements(once, url, elements, params, t), elements, path, 2,
                       <<_generate_cache_key(url, params), _generate_cache_key(url, params)>>)

\* lines 46-49 and 57-59: snapshot, store under (url, params), return it
FullRefresh(s, url, params, smap, t, path) ==
    LET elements == _fetch_fresh_elements(smap)
    IN IF s.env.get_state = "raise" THEN Raised(s, path, 1)
       ELSE CallResult(store_elements(s, url, elements, params, t), elements, path, 1,
                       <<_generate_cache_key(url, params)>>)

\* a diff that writes the cached set back before it takes the snapshot
update_cache_with_diff_StoreFirst(s, url, cached_elements, smap, t) ==
    LET current_elements == _fetch_fresh_elements(smap)
        updated_cache == MergeDiff(cached_elements, current_elements)
        params == _extract_url_params(url)
        touched == store_elements(s, url, cached_elements, params, t)
    IN IF s.env.get_state = "raise" THEN Raised(touched, "diff", 1)
       ELSE CallResult(store_elements(touched, url, updated_cache, params, t),
                       updated_cache, "diff", 1, <<_generate_cache_key(url, params)>>)

\* CacheManager.update_cache_with_diff: snapshot, merge, store under the
\* parameters of url (line 289), return
update_cache_with_diff(s, url, cached_elements, smap, t) ==
    LET current_elements == _fetch_fresh_elements(smap)
        updated_cache == MergeDiff(cached_elements, current_elements)
        params == _extract_url_params(url)
    IN IF s.env.get_state = "raise" THEN Raised(s, "diff", 1)
       ELSE CallResult(store_elements(s, url, updated_cache, params, t), updated_cache,
                       "diff", 1, <<_generate_cache_key(url, params)>>)

\* a hit that also stores the cached set again
UseCachedTouching(s, url, params, cached_elements, t) ==
    CallResult(store_elements(s, url, cached_elements, params, t), cached_elements,
               "valid", 0, <<_generate_cache_key(url, params)>>)

\* lines 69-70: the cached set is returned as it is
UseCached(s, url, params, cached_elements, t) ==
    CallResult(s, cached_elements, "valid", 0, <<>>)

\* CacheManager.get_elements_with_cache(url, force_refresh) while the browser
\* is at current_url showing smap, at time t
get_elements_with_cache(s, url, force_refresh, current_url, smap, t) ==
    LET params == _extract_url_params(current_url)
    IN IF s.env.get_current_url = "raise" THEN Raised(s, "url", 0)
       ELSE IF force_refresh \/ _should_refresh_cache(s, url, params, t)
       THEN FullRefresh(s, url, params, smap, t, "refresh")
       ELSE LET got == get_elements(s, url, params)
            IN IF got.elements = EmptyDict
               THEN FullRefresh(got.store, url, params, smap, t, "empty")
               ELSE IF s.env.validate_page = "raise"
                    THEN Raised(got.store, "validate", 0)
                    ELSE IF ~validate_cache(LiveNodes(smap), got.elements,
                                            validation_sample_size)
                    THEN update_cache_with_diff(got.store, url, got.elements, smap, t)
                    ELSE UseCached(got.store, url, params, got.elements, t)

\* the key get_elements_with_cache looks the url up under
ReadKey(url, current_url) ==
    _generate_cache_key(url, _extract_url_params(current_url))

----------------------------------------------------------------------------
(* The program: one manager on one store and one page *)

Idle(op) == [op |-> op, url |-> UrlPlain, force_refresh |-> FALSE,
             key |-> UrlPlain, path |-> "none", elements |-> EmptyDict,
             snapshots |-> 0, put_keys |-> <<>>, raised |-> FALSE, env |-> EnvOk,
             params |-> EmptyDict]

VersionOf(meta, key) == IF key \in DOMAIN meta THEN meta[key].version ELSE 0

\* no key pair under comparison, no resilient_locate under way
KeyIdle ==
    /\ k_first = UrlPlain /\ k_second = UrlPlain /\ k_arg = "none" /\ k_keys = <<>>

\* no store_elements under way, no concurrent tasks, no sampled set
PeerIdle ==
    /\ w_pc = "idle" /\ w_key = UrlPlain /\ w_elements = EmptyDict
    /\ w_prev = <<>> /\ p_seen = <<>>

TaskIdle ==
    /\ c_pc = <<>> /\ c_force = <<>> /\ c_local = <<>> /\ c_ret = <<>>
    /\ c_start = <<>>

SampleIdle ==
    /\ v_indices = <<>> /\ v_live = <<>>

InstIdle ==
    /\ b_cache = <<>> /\ b_metadata = <<>> /\ b_out = <<>>

ActionIdle ==
    a_out = <<>>

LookupIdle ==
    /\ x_index = 0 /\ x_out = <<>>

ResolveIdle ==
    /\ r_params = EmptyDict /\ r_max = 0 /\ r_pc = "idle"
    /\ r_attempt = 0 /\ r_pos = 0 /\ r_calls = <<>> /\ r_result = <<>>
    /\ r_sleeps = 0 /\ r_env = "ok" /\ r_faulted = FALSE

PureInit ==
    /\ KeyIdle /\ ResolveIdle /\ PeerIdle /\ TaskIdle /\ SampleIdle /\ InstIdle /\ ActionIdle /\ LookupIdle
    /\ v_size = validation_sample_size /\ v_count = 0 /\ v_pc = "idle"
    /\ v_outcomes = <<>> /\ valid_count = 0 /\ v_result = FALSE
    /\ d_old = EmptyDict /\ d_fresh = EmptyDict /\ d_out = <<>>
    /\ m_old = <<>> /\ m_new = <<>> /\ m_out = <<>>

StoreInit ==
    /\ cache = EmptyDict /\ metadata = EmptyDict
    /\ metadata_file = <<>> /\ cache_files = EmptyDict
    /\ now = 0
    /\ page_url = UrlPlain /\ selector_map = EmptyDict
    /\ last = Idle("init")
    /\ observed = <<>>

Init == StoreInit /\ PureInit

SetStore(s) ==
    /\ cache' = s.cache
    /\ metadata' = s.metadata
    /\ metadata_file' = s.metadata_file
    /\ cache_files' = s.cache_files

\* await cache_manager.get_elements_with_cache(url, force_refresh)
GetElements(url, force_refresh, env) ==
    LET r == get_elements_with_cache([StoreState EXCEPT !.env = env], url,
                                     force_refresh, page_url, selector_map, now)
        key == ReadKey(url, page_url)
    IN /\ \A k \in DOMAIN r.store.metadata : r.store.metadata[k].version <= MaxVersion
       /\ SetStore(r.store)
       /\ last' = [op |-> "get", url |-> url, force_refresh |-> force_refresh,
                   key |-> key, path |-> r.path, elements |-> r.elements,
                   snapshots |-> r.snapshots, put_keys |-> r.put_keys,
                   raised |-> r.raised, env |-> env,
                   params |-> _extract_url_params(page_url)]
       /\ observed' = <<key, VersionOf(r.store.metadata, key)>>
       /\ UNCHANGED <<now, pageVars, validateVars, diffVars, modVars, keyVars, peerVars, taskVars, sampleVars, instVars, actionVars, lookupVars, resolveVars>>

\* element_cache.clear_cache(url, params)
ClearCache(url, params, env) ==
    /\ SetStore(clear_cache_url([StoreState EXCEPT !.env = env], url, params))
    /\ last' = [Idle("clear") EXCEPT !.url = url, !.env = env, !.params = params,
                                     !.key = _generate_cache_key(url, params)]
    /\ UNCHANGED <<now, pageVars, observed, validateVars, diffVars, modVars, keyVars, peerVars, taskVars, sampleVars, instVars, actionVars, lookupVars, resolveVars>>

\* element_cache.clear_cache()
ClearAll(env) ==
    /\ SetStore(clear_cache_all([StoreState EXCEPT !.env = env]))
    /\ last' = [Idle("clear_all") EXCEPT !.env = env]
    /\ UNCHANGED <<now, pageVars, observed, validateVars, diffVars, modVars, keyVars, peerVars, taskVars, sampleVars, instVars, actionVars, lookupVars, resolveVars>>

\* a new ElementCache on the same cache directory replaces the store
NewInstance(env) ==
    /\ SetStore(new_instance([StoreState EXCEPT !.env = env]))
    /\ last' = [Idle("new") EXCEPT !.env = env]
    /\ UNCHANGED <<now, pageVars, observed, validateVars, diffVars, modVars, keyVars, peerVars, taskVars, sampleVars, instVars, actionVars, lookupVars, resolveVars>>

\* time passes
Tick(d) ==
    /\ now + d <= MaxNow
    /\ now' = now + d
    /\ last' = Idle("tick")
    /\ UNCHANGED <<storeVars, pageVars, observed, validateVars, diffVars, modVars, keyVars, peerVars, taskVars, sampleVars, instVars, actionVars, lookupVars, resolveVars>>

\* the browser goes to another URL
Navigate(u) ==
    /\ u # page_url
    /\ page_url' = u
    /\ last' = Idle("page")
    /\ UNCHANGED <<storeVars, now, selector_map, observed, validateVars, diffVars, modVars, keyVars, peerVars, taskVars, sampleVars, instVars, actionVars, lookupVars, resolveVars>>

\* the page changes: its selector_map becomes smap
PageChanges(smap) ==
    /\ smap # selector_map
    /\ selector_map' = smap
    /\ last' = Idle("page")
    /\ UNCHANGED <<storeVars, now, page_url, observed, validateVars, diffVars, modVars, keyVars, peerVars, taskVars, sampleVars, instVars, actionVars, lookupVars, resolveVars>>

Next ==
    \/ \E url \in Urls, force_refresh \in BOOLEAN : GetElements(url, force_refresh, EnvOk)
    \/ \E url \in Urls, params \in ParamDicts : ClearCache(url, params, EnvOk)
    \/ ClearAll(EnvOk)
    \/ NewInstance(EnvOk)
    \/ \E d \in {cache_ttl, cache_ttl + 1} : Tick(d)
    \/ \E u \in PageUrls : Navigate(u)
    \/ \E smap \in SelectorMaps : PageChanges(smap)

Spec == Init /\ [][Next]_vars

----------------------------------------------------------------------------
(* Properties of getElements *)

\* the step is a getElements call that returned (last' describes it)
IsCall == last'.op = "get" /\ vars' # vars

\* the key the call of this step reads, and what the store holds for it
CallKey == last'.key
CallParams == _extract_url_params(page_url)
CachedBefore == get_elements(StoreState, last'.url, CallParams).elements
FreshNow == _fetch_fresh_elements(selector_map)
HasRecord(key) == key \in DOMAIN metadata
WithinTtl(key) == now - metadata[key].timestamp <= cache_ttl

\* C1: two getElements(key, forceRefresh=false) calls in immediate
\* succession, with nothing happening to the page in between, return the
\* same element set, and the second one leaves the version of the key as it
\* was.
C1_Idempotence ==
    [][(/\ IsCall
        /\ last.op = "get" /\ last.url = last'.url /\ last.key = last'.key
        /\ ~last.force_refresh /\ ~last'.force_refresh)
       => /\ last'.elements = last.elements
          /\ VersionOf(metadata', CallKey) = VersionOf(metadata, CallKey)]_vars

\* C2: without forceRefresh, with an index record within TTL, a non-empty
\* cached set and a successful validation, getElements returns the cached
\* set, takes no snapshot, stores nothing, and leaves index, memory tier
\* and durable tier of every key unchanged.
C2_CachedFastPath ==
    [][(/\ IsCall
        /\ ~last'.force_refresh
        /\ HasRecord(CallKey) /\ WithinTtl(CallKey)
        /\ CachedBefore # EmptyDict
        /\ validate_cache(LiveNodes(selector_map), CachedBefore, validation_sample_size))
       => /\ last'.elements = CachedBefore
          /\ last'.snapshots = 0
          /\ last'.put_keys = <<>>
          /\ metadata' = metadata
          /\ metadata_file' = metadata_file
          /\ cache_files' = cache_files
          /\ cache' = get_elements(StoreState, last'.url, CallParams).store.cache]_vars

C2_Witness ==
    /\ last.op = "get" /\ last.path = "valid" /\ ~last.force_refresh
    /\ last.elements # EmptyDict /\ last.snapshots = 0
    /\ VersionOf(metadata, last.key) = 1

\* C3: without forceRefresh the refresh of step 1 is taken exactly when the
\* key has no index record or now - timestamp > ttl (an entry aged exactly
\* ttl is not refreshed); an entry with timestamp = now - (ttl + 1) is
\* always refreshed in full: one snapshot, version plus one.
C3_TtlTrigger ==
    [][IsCall
       => /\ ~last'.force_refresh
             => (last'.path = "refresh"
                 <=> (~HasRecord(CallKey) \/ now - metadata[CallKey].timestamp > cache_ttl))
          /\ (HasRecord(CallKey) /\ metadata[CallKey].timestamp = now - (cache_ttl + 1))
             => /\ last'.path = "refresh"
                /\ last'.snapshots = 1
                /\ last'.elements = FreshNow
                /\ metadata'[CallKey].version = metadata[CallKey].version + 1]_vars

\* an unforced refresh of a key that had a record: its entry was older than ttl
C3_Witness ==
    /\ last.op = "get" /\ last.path = "refresh" /\ ~last.force_refresh
    /\ VersionOf(metadata, last.key) = 2
    /\ metadata[last.key].timestamp = cache_ttl + 1

\* C4: with forceRefresh, or no index record, or an empty Store.get,
\* getElements takes exactly one snapshot, stores it in place of whatever
\* was cached (memory and durable tier hold exactly the fresh set) and
\* returns exactly the fresh set.
C4_FullReplace ==
    [][(/\ IsCall
        /\ \/ last'.force_refresh
           \/ ~HasRecord(CallKey)
           \/ CachedBefore = EmptyDict)
       => /\ last'.snapshots = 1
          /\ last'.put_keys = <<CallKey>>
          /\ last'.elements = FreshNow
          /\ cache'[CallKey] = FreshNow
          /\ cache_files'[CallKey].elements = FreshNow
          /\ metadata'[CallKey].element_count = Cardinality(DOMAIN FreshNow)]_vars

\* a forced refresh replaced a stored set by the smaller set of the edited page
C4_Witness ==
    /\ last.op = "get" /\ last.force_refresh
    /\ VersionOf(metadata, last.key) = 2
    /\ selector_map = PageEdited
    /\ cache[last.key] = _fetch_fresh_elements(PageEdited)

\* C5: on the diff-merge path getElements takes one snapshot, stores the
\* merged set under the key it read the cached set from and returns it, so
\* that a Store.get of that key right afterwards returns the merged set.
C5_DiffMergeSameKey ==
    (last.op = "get" /\ last.path = "diff")
    => /\ last.snapshots = 1
       /\ last.put_keys = <<last.key>>
       /\ get_elements(StoreState, last.url, _extract_url_params(page_url)).elements
             = last.elements

\* C10: the version seen after a getElements of a key is never below the
\* version seen after the previous getElements of that key, whatever store
\* operations ran in between.
C10_VersionMonotonic ==
    [][(IsCall /\ observed # <<>> /\ observed'[1] = observed[1])
       => observed'[2] >= observed[2]]_vars

\* C11: every store_elements(K, S) a getElements call makes sets the index
\* record of K to version = previous version + 1 (1 without a record),
\* element_count = |S| and timestamp = now, and makes the memory tier of K
\* equal to S.
C11_PutBookkeeping ==
    [][(IsCall /\ last'.put_keys # <<>>)
       => LET K == last'.put_keys[1]
              S == last'.elements
          IN /\ metadata'[K].version = VersionOf(metadata, K) + 1
             /\ metadata'[K].element_count = Cardinality(DOMAIN S)
             /\ metadata'[K].timestamp = now
             /\ cache'[K] = S]_vars

\* a second store of a key, later than the first and with two elements
C11_Witness ==
    /\ last.op = "get" /\ last.put_keys = <<last.key>>
    /\ metadata[last.key].version = 2
    /\ metadata[last.key].timestamp = cache_ttl
    /\ metadata[last.key].element_count = 2
    /\ cache[last.key] = last.elements

----------------------------------------------------------------------------
(* validate_cache, sample by sample: every await page.query_selector is a
   step, and the page answers each lookup as it pleases *)

mainVars == <<cache, metadata, metadata_file, cache_files, now, page_url,
              selector_map, last, observed>>

\* the samples of a cached set of v_count entries
SampleIndices == _select_validation_samples([i \in 1..v_count |-> i], v_size)

InitValidate ==
    /\ StoreInit /\ KeyIdle /\ ResolveIdle /\ PeerIdle /\ TaskIdle /\ SampleIdle /\ InstIdle /\ ActionIdle /\ LookupIdle
    /\ v_size \in 1..MaxSampleSize
    /\ v_count \in {v_size - 1, v_size + 1}
    /\ v_pc = "loop" /\ v_outcomes = <<>> /\ valid_count = 0 /\ v_result = FALSE
    /\ d_old = EmptyDict /\ d_fresh = EmptyDict /\ d_out = <<>>
    /\ m_old = <<>> /\ m_new = <<>> /\ m_out = <<>>

\* lines 182-195: one sample is looked up
ValidateSample(outcome) ==
    /\ v_pc = "loop"
    /\ Len(v_outcomes) < Len(SampleIndices)
    /\ v_outcomes' = Append(v_outcomes, outcome)
    /\ valid_count' = CountSample(valid_count, outcome)
    /\ v_pc' = AfterSample(outcome)
    /\ UNCHANGED <<mainVars, v_size, v_count, v_result, diffVars, modVars, keyVars, peerVars, taskVars, sampleVars, instVars, actionVars, lookupVars, resolveVars>>

\* lines 197-201: the ratio is compared and returned
ValidateReturn ==
    /\ v_pc = "loop"
    /\ Len(v_outcomes) = Len(SampleIndices)
    /\ v_result' = ValidityDecision(valid_count, Len(SampleIndices))
    /\ v_pc' = "done"
    /\ UNCHANGED <<mainVars, v_size, v_count, v_outcomes, valid_count, diffVars, modVars, keyVars, peerVars, taskVars, sampleVars, instVars, actionVars, lookupVars, resolveVars>>

NextValidate ==
    \/ \E outcome \in LookupOutcomes : ValidateSample(outcome)
    \/ ValidateReturn

SpecValidate == InitValidate /\ [][NextValidate]_vars

\* the samples for which the live page held a matching node
NumFound(outcomes) == Cardinality({i \in DOMAIN outcomes : outcomes[i] = "found"})

\* C8: validate returns true exactly when validCount / sampleSize >= 0.7,
\* validCount being the number of samples found on the live page: 3 of 3 is
\* true, 2 of 3 is false, exactly 0.7 is true.
C8_ValidatorThreshold ==
    v_pc = "done"
    => LET n == Len(v_outcomes)
           found == NumFound(v_outcomes)
       IN /\ v_result = (n > 0 /\ 10 * found >= 7 * n)
          /\ (n = 3 /\ found = 3) => v_result
          /\ (n = 3 /\ found <= 2) => ~v_result
          /\ (n = 10 /\ found = 7) => v_result

\* a validity of exactly 0.7
C8_Witness ==
    v_pc = "done" /\ Len(v_outcomes) = 10 /\ NumFound(v_outcomes) = 7 /\ v_result

\* C9: a lookup that raises is swallowed: the sample counts as invalid, the
\* samples after it are still looked up, and validate returns a boolean.
C9_ErrorIsolation ==
    /\ v_pc \in {"idle", "loop", "done"}
    /\ valid_count = NumFound(v_outcomes)
    /\ v_pc = "done"
       => /\ Len(v_outcomes) = Len(SampleIndices)
          /\ v_result \in BOOLEAN

\* the first lookup raised, the other three found their node: valid
C9_Witness ==
    /\ v_pc = "done"
    /\ v_outcomes = <<"error", "found", "found", "found">>
    /\ valid_count = 3 /\ v_result

----------------------------------------------------------------------------
(* update_cache_with_diff on one cached set and one snapshot *)

Handles == {"1", "2", "3"}

BtnOkClass == DomElement("/body/button", "button",
                         ("id" :> "ok") @@ ("class" :> <<"big">>), "OK", TRUE)

DiffEntries == {ElementEntry(e) : e \in {BtnOk, BtnGo, BtnOkClass, LinkNav}}

DiffDicts == UNION {[H -> DiffEntries] : H \in SUBSET Handles}

InitDiff ==
    /\ StoreInit /\ KeyIdle /\ ResolveIdle /\ PeerIdle /\ TaskIdle /\ SampleIdle /\ InstIdle /\ ActionIdle /\ LookupIdle
    /\ v_size = validation_sample_size /\ v_count = 0 /\ v_pc = "idle"
    /\ v_outcomes = <<>> /\ valid_count = 0 /\ v_result = FALSE
    /\ d_old \in DiffDicts /\ d_fresh \in DiffDicts /\ d_out = <<>>
    /\ m_old = <<>> /\ m_new = <<>> /\ m_out = <<>>

\* lines 271-286: the diff and the merged set of d_old and d_fresh
ApplyDiff ==
    /\ d_out = <<>>
    /\ d_out' = <<[updated_cache |-> MergeDiff(d_old, d_fresh),
                   diff |-> _compute_diff(d_old, d_fresh)]>>
    /\ UNCHANGED <<mainVars, validateVars, d_old, d_fresh, modVars, keyVars, peerVars, taskVars, sampleVars, instVars, actionVars, lookupVars, resolveVars>>

NextDiff == ApplyDiff

SpecDiff == InitDiff /\ [][NextDiff]_vars

\* C6: the differ reports added = keys(fresh) - keys(old) and removed =
\* keys(old) - keys(fresh); the merged set has exactly the keys of fresh,
\* the fresh record for every added or modified key and the cached record
\* for every other key.
C6_DiffCorrectness ==
    d_out # <<>>
    => LET merged == d_out[1].updated_cache
           diff == d_out[1].diff
       IN /\ diff.added = DOMAIN d_fresh \ DOMAIN d_old
          /\ diff.removed = DOMAIN d_old \ DOMAIN d_fresh
          /\ diff.modified \subseteq DOMAIN d_old \cap DOMAIN d_fresh
          /\ \A k \in (DOMAIN d_old \cap DOMAIN d_fresh) \ diff.modified :
                d_old[k].tag_name = d_fresh[k].tag_name
          /\ DOMAIN merged = DOMAIN d_fresh
          /\ \A k \in DOMAIN merged :
                merged[k] = IF k \in diff.added \cup diff.modified
                            THEN d_fresh[k] ELSE d_old[k]

\* old = {1:X, 2:Y}, fresh = {1:X, 3:Z}: merged {1:X, 3:Z}, 3 added, 2 removed
C6_Witness ==
    /\ d_old = ("1" :> ElementEntry(BtnOk)) @@ ("2" :> ElementEntry(LinkNav))
    /\ d_fresh = ("1" :> ElementEntry(BtnOk)) @@ ("3" :> ElementEntry(BtnOkClass))
    /\ d_out # <<>>
    /\ d_out[1].updated_cache = d_fresh
    /\ d_out[1].diff = [added |-> {"3"}, removed |-> {"2"}, modified |-> {}]

----------------------------------------------------------------------------
(* _is_element_modified on two entries of the shape of the snapshot *)

Optional(attr, values) == {EmptyDict} \cup {(attr :> v) : v \in values}

ModAttributes ==
    {a @@ b @@ c @@ d @@ e :
        a \in Optional("id", {"i"}), b \in Optional("class", {<<"c">>}),
        c \in Optional("name", {"n"}), d \in Optional("type", {"t"}),
        e \in Optional("data-x", {"d"})}

ModEntries ==
    {ElementEntry(DomElement(xpath, tag, attrs, text, interactive)) :
        xpath \in {"/p", "/q"}, tag \in {"a", "button"}, attrs \in ModAttributes,
        text \in {"s", "t"}, interactive \in BOOLEAN}

InitMod ==
    /\ StoreInit /\ KeyIdle /\ ResolveIdle /\ PeerIdle /\ TaskIdle /\ SampleIdle /\ InstIdle /\ ActionIdle /\ LookupIdle
    /\ v_size = validation_sample_size /\ v_count = 0 /\ v_pc = "idle"
    /\ v_outcomes = <<>> /\ valid_count = 0 /\ v_result = FALSE
    /\ d_old = EmptyDict /\ d_fresh = EmptyDict /\ d_out = <<>>
    /\ m_old \in ModEntries /\ m_new \in ModEntries /\ m_out = <<>>

\* line 316: the two entries under one key are compared
ApplyModified ==
    /\ m_out = <<>>
    /\ m_out' = <<_is_element_modified(m_old, m_new)>>
    /\ UNCHANGED <<mainVars, validateVars, diffVars, m_old, m_new, keyVars, peerVars, taskVars, sampleVars, instVars, actionVars, lookupVars, resolveVars>>

NextMod == ApplyModified

SpecMod == InitMod /\ [][NextMod]_vars

\* C7: two entries of the snapshot's shape are modified exactly when they
\* differ in the xpath locator, the tag, the interactivity flag or one of
\* the attributes id, class, name, type.
C7_ModificationDetection ==
    m_out # <<>>
    => m_out[1] =
          \/ DictGet(m_old.locators, "xpath") # DictGet(m_new.locators, "xpath")
          \/ m_old.tag_name # m_new.tag_name
          \/ m_old.is_clickable # m_new.is_clickable
          \/ \E attr \in {"id", "class", "name", "type"} :
                DictGet(m_old.attributes, attr) # DictGet(m_new.attributes, attr)

----------------------------------------------------------------------------
(* Store and manager on a file system and a browser that can fail *)

\* what can go wrong during one call of the store: one thing at a time
WriteFaults ==
    {[EnvOk EXCEPT !.meta_write = o] : o \in {"fail", "torn"}}
    \cup {[EnvOk EXCEPT !.file_write = o] : o \in {"fail", "torn"}}
ReadFaults == {[EnvOk EXCEPT !.file_read = "fail"]}
LoadFaults == {[EnvOk EXCEPT !.meta_read = "fail"]}
ClearFaults ==
    {[EnvOk EXCEPT !.meta_write = o] : o \in {"fail", "torn"}}
    \cup {[EnvOk EXCEPT !.remove = "fail"]}

\* the element sets a caller of store_elements passes
ElementSets == {_fetch_fresh_elements(PageFull), _fetch_fresh_elements(PageEdited)}

\* element_cache.store_elements(url, elements, params)
Put(url, params, elements, env) ==
    LET s == store_elements([StoreState EXCEPT !.env = env], url, elements, params, now)
        key == _generate_cache_key(url, params)
    IN /\ s.metadata[key].version <= MaxVersion
       /\ SetStore(s)
       /\ last' = [Idle("put") EXCEPT !.url = url, !.key = key, !.env = env,
                                      !.params = params,
                                      !.elements = elements, !.put_keys = <<key>>]
       /\ UNCHANGED <<now, pageVars, observed, validateVars, diffVars, modVars, keyVars, peerVars, taskVars, sampleVars, instVars, actionVars, lookupVars, resolveVars>>

\* element_cache.get_elements(url, params)
Get(url, params, env) ==
    LET r == get_elements([StoreState EXCEPT !.env = env], url, params)
    IN /\ SetStore(r.store)
       /\ last' = [Idle("store_get") EXCEPT !.url = url, !.env = env,
                                            !.params = params,
                                            !.key = _generate_cache_key(url, params),
                                            !.elements = r.elements]
       /\ UNCHANGED <<now, pageVars, observed, validateVars, diffVars, modVars, keyVars, peerVars, taskVars, sampleVars, instVars, actionVars, lookupVars, resolveVars>>

NextStore ==
    \/ \E url \in Urls, params \in ParamDicts, elements \in ElementSets,
          env \in {EnvOk} \cup WriteFaults : Put(url, params, elements, env)
    \/ \E url \in Urls, params \in ParamDicts, env \in {EnvOk} \cup ReadFaults :
          Get(url, params, env)
    \/ \E url \in Urls, params \in ParamDicts, env \in {EnvOk} \cup ClearFaults :
          ClearCache(url, params, env)
    \/ \E env \in {EnvOk} \cup ClearFaults : ClearAll(env)
    \/ \E env \in {EnvOk} \cup LoadFaults : NewInstance(env)

SpecStore == Init /\ [][NextStore]_vars

\* the per-key file of key holds a record json.load accepts
Readable(files, key) == key \in DOMAIN files /\ "elements" \in DOMAIN files[key]

\* the record of key in the index a new instance would load
DurableIndex(file, key) == DictGet(_load_metadata(file, "ok"), key)

\* C12: a put(K, S) whose durable write fails or stops part-way leaves a
\* per-key record of K that was readable before the call readable, with
\* the contents it had.
C12_AtomicPut ==
    [][(/\ last'.op = "put"
        /\ last'.env.file_write # "ok"
        /\ Readable(cache_files, last'.key))
       => cache_files'[last'.key] = cache_files[last'.key]]_vars

\* C13: get(K) returns the memory tier's set when there is one, leaving
\* the store as it is; on a memory miss with a per-key record that reads
\* and parses it returns the record's set and leaves the memory tier
\* holding it, index and files untouched; with K in neither tier it returns
\* the empty set and leaves memory, index and files untouched.
C13_StoreGet ==
    [][last'.op = "store_get"
       => LET K == last'.key
              hit == K \in DOMAIN cache
          IN /\ hit => /\ last'.elements = cache[K]
                       /\ storeVars' = storeVars
             /\ (~hit /\ Readable(cache_files, K) /\ last'.env.file_read = "ok")
                => /\ last'.elements = cache_files[K].elements
                   /\ cache' = DictSet(cache, K, cache_files[K].elements)
                   /\ <<metadata, metadata_file, cache_files>>'
                         = <<metadata, metadata_file, cache_files>>
             /\ (~hit /\ K \notin DOMAIN cache_files)
                => /\ last'.elements = EmptyDict
                   /\ ~last'.raised
                   /\ storeVars' = storeVars]_vars

\* a get loaded a set from the durable tier into a memory tier that holds
\* no index record of the key (a new instance whose index did not load)
C13_Witness ==
    /\ last.op = "store_get"
    /\ last.key \notin DOMAIN metadata
    /\ last.elements # EmptyDict
    /\ Readable(cache_files, last.key)
    /\ last.elements = cache_files[last.key].elements
    /\ cache[last.key] = last.elements

\* C14: after clear(K) the key is gone from memory tier, index, index file
\* and per-key files, also when os.remove fails, and every other key is as
\* it was; after clear() every key is gone.
C14_ClearConsistency ==
    [][/\ last'.op = "clear"
          => LET K == last'.key
             IN /\ K \notin DOMAIN cache' /\ K \notin DOMAIN metadata'
                /\ K \notin DOMAIN cache_files'
                /\ DurableIndex(metadata_file', K) = <<>>
                /\ \A k \in (DOMAIN cache \cup DOMAIN metadata \cup DOMAIN cache_files) \ {K} :
                      /\ DictGet(cache', k) = DictGet(cache, k)
                      /\ DictGet(metadata', k) = DictGet(metadata, k)
                      /\ DictGet(cache_files', k) = DictGet(cache_files, k)
       /\ last'.op = "clear_all"
          => /\ cache' = EmptyDict /\ metadata' = EmptyDict
             /\ cache_files' = EmptyDict
             /\ _load_metadata(metadata_file', "ok") = EmptyDict]_vars

\* what can go wrong in the browser during one getElements: one await raises
BrowserFaults ==
    {[EnvOk EXCEPT !.get_current_url = "raise"],
     [EnvOk EXCEPT !.validate_page = "raise"],
     [EnvOk EXCEPT !.get_state = "raise"]}

\* one manager on one key: the browser stays at UrlPlain
NextIO ==
    \/ \E force_refresh \in BOOLEAN,
          env \in {EnvOk} \cup WriteFaults \cup ReadFaults \cup BrowserFaults :
          GetElements(UrlPlain, force_refresh, env)
    \/ \E elements \in ElementSets, env \in {EnvOk} \cup WriteFaults :
          Put(UrlPlain, EmptyDict, elements, env)
    \/ \E env \in {EnvOk} \cup ReadFaults : Get(UrlPlain, EmptyDict, env)
    \/ \E env \in {EnvOk} \cup LoadFaults : NewInstance(env)
    \/ \E smap \in {PageFull, PageEdited} : PageChanges(smap)

SpecIO == Init /\ [][NextIO]_vars

\* C15: a durable read or write that fails during get, put or getElements
\* does not reach the caller, and after a put whose durable write failed a
\* get of the key in the same instance returns the set just put.
C15_IoDegradation ==
    /\ (last.op \in {"get", "put", "store_get"}
        /\ last.env \in WriteFaults \cup ReadFaults)
       => ~last.raised
    /\ (last.op = "put" /\ last.env \in WriteFaults)
       => get_elements(StoreState, last.url, last.params).elements = last.elements

\* a get returned the set of a put that never reached the durable tier
C15_Witness ==
    /\ last.op = "store_get"
    /\ last.elements \in ElementSets
    /\ cache[last.key] = last.elements
    /\ last.key \notin DOMAIN cache_files

\* the per-key record of key is corrupt and the memory tier is cold
ColdAndTorn(key) ==
    /\ key \notin DOMAIN cache
    /\ key \in DOMAIN cache_files /\ cache_files[key] = TornRecord

\* C16: with a corrupt per-key record of K and a cold memory tier,
\* Store.get(K) returns the empty set, and a getElements(K) for which the
\* browser works returns normally after one snapshot, stored under K and
\* returned, whether the index holds a fresh record of K or none.
C16_MalformedRecovery ==
    [][/\ (last'.op = "store_get" /\ ColdAndTorn(last'.key))
          => /\ last'.elements = EmptyDict
             /\ ~last'.raised
       /\ (IsCall /\ ColdAndTorn(CallKey) /\ last'.env \notin BrowserFaults)
          => /\ ~last'.raised
             /\ last'.snapshots = 1
             /\ last'.put_keys = <<CallKey>>
             /\ last'.elements = FreshNow
             /\ cache'[CallKey] = FreshNow
             /\ metadata'[CallKey].element_count = Cardinality(DOMAIN FreshNow)]_vars

\* Store.get came back empty from a corrupt record while the index holds a
\* record of the key
C16_Witness ==
    /\ last.op = "store_get" /\ last.elements = EmptyDict
    /\ ColdAndTorn(last.key)
    /\ last.key \in DOMAIN metadata

\* C17: a getElements call during which the Snapshot Source, or obtaining
\* the live page, fails returns to its caller without an error.
C17_SnapshotFailureContained ==
    (last.op = "get" /\ last.env \in BrowserFaults) => ~last.raised

----------------------------------------------------------------------------
(* The cache keys of two page URLs *)

\* the page URLs x, x?k=v and x?k=v&l=w over two names and two values
KeyPairs == {<<k, v>> : k \in {"a", "b"}, v \in {"1", "2"}}

Queries ==
    {<<>>} \cup {<<p>> : p \in KeyPairs}
    \cup {<<pq[1], pq[2]>> : pq \in {x \in KeyPairs \X KeyPairs : x[1][1] # x[2][1]}}

KeyUrls == {Url("x", IF q = <<>> THEN <<>> ELSE <<q>>) : q \in Queries}

\* the url argument of get_elements_with_cache for a page at u: the page
\* URL itself (context_extension.py line 78), or the URL without its query
UrlArg(arg, u) == IF arg = "page" THEN u ELSE Url(u.base, <<>>)

InitKey ==
    /\ StoreInit /\ ResolveIdle /\ PeerIdle /\ TaskIdle /\ SampleIdle /\ InstIdle /\ ActionIdle /\ LookupIdle
    /\ v_size = validation_sample_size /\ v_count = 0 /\ v_pc = "idle"
    /\ v_outcomes = <<>> /\ valid_count = 0 /\ v_result = FALSE
    /\ d_old = EmptyDict /\ d_fresh = EmptyDict /\ d_out = <<>>
    /\ m_old = <<>> /\ m_new = <<>> /\ m_out = <<>>
    /\ k_first \in KeyUrls /\ k_second \in KeyUrls
    /\ k_arg \in {"page", "base"}
    /\ k_keys = <<>>

\* cache_manager.py lines 39-40 and 52: the key each of the two calls reads
\* and stores under
ComputeKeys ==
    /\ k_keys = <<>>
    /\ k_keys' = <<ReadKey(UrlArg(k_arg, k_first), k_first),
                  ReadKey(UrlArg(k_arg, k_second), k_second)>>
    /\ UNCHANGED <<mainVars, validateVars, diffVars, modVars, peerVars, taskVars, sampleVars, instVars, actionVars, lookupVars, k_first, k_second,
                   k_arg, resolveVars>>

NextKey == ComputeKeys

SpecKey == InitKey /\ [][NextKey]_vars

\* the two URLs differ in nothing but the order of their query parameters
SameButOrder(u, v) ==
    /\ u.base = v.base
    /\ Len(u.segs) = Len(v.segs)
    /\ u.segs # <<>>
       => /\ Len(u.segs[1]) = Len(v.segs[1])
          /\ {u.segs[1][i] : i \in 1..Len(u.segs[1])}
                = {v.segs[1][i] : i \in 1..Len(v.segs[1])}

\* C18: two page URLs that differ only in the order of their query
\* parameters have the same cache key: _generate_cache_key gives the same
\* key for the base URL with the parameters of either, and getElements on
\* one page reads the key getElements on the other stored under.
C18_KeyNormalization ==
    (k_keys # <<>> /\ SameButOrder(k_first, k_second))
    => /\ _generate_cache_key(Url(k_first.base, <<>>), _extract_url_params(k_first))
             = _generate_cache_key(Url(k_second.base, <<>>), _extract_url_params(k_second))
       /\ k_keys[1] = k_keys[2]

----------------------------------------------------------------------------
(* The Resolver: ElementHelper.resilient_locate, one await after the other *)

\* params.get(key, default)
ParamGet(params, key, default) == IF key \in DOMAIN params THEN params[key] ELSE default

\* the values of 'index' that int() converts
IntOf == ("7" :> 7) @@ ("3" :> 3)

\* the descriptions a caller passes: each of selector, role, text missing,
\* empty or given; index missing, an integer or not a number
Descriptions ==
    LET Keys == {"selector", "role", "text", "index"}
        Values(k) == CASE k = "selector" -> {"", "#ok"}
                       [] k = "role" -> {"", "button"}
                       [] k = "text" -> {"", "OK"}
                       [] k = "index" -> {"7", "x"}
    IN UNION {{d \in [ks -> {"", "#ok", "button", "OK", "7", "x"}] :
                  \A k \in ks : d[k] \in Values(k)} : ks \in SUBSET Keys}

\* text strategy first
strategies_TextFirst(params) ==
    SelectSeq(<<"text", "selector", "role">>, LAMBDA k : ParamGet(params, k, "") # "")

\* lines 347-359: the strategies list, selector, role, text, each when truthy
strategies(params) ==
    SelectSeq(<<"selector", "role", "text">>, LAMBDA k : ParamGet(params, k, "") # "")

\* what one strategy invocation gives: an index, None, or an exception
NoIndex(kind) == [kind |-> kind, index |-> 0]
Found(index) == [kind |-> "index", index |-> index]
StrategyOutcomes == {NoIndex("none"), NoIndex("raise")} \cup {Found(i) : i \in {0, 1}}

\* one round more than max_attempts
AnotherAttempt_OneMore(attempt, max_attempts) == attempt + 1 <= max_attempts

\* line 366: range(max_attempts) has an attempt after this one
AnotherAttempt(attempt, max_attempts) == attempt + 1 < max_attempts

\* an exception of the strategy leaves resilient_locate
AfterStrategy_Propagating(outcome) ==
    IF outcome.kind = "raise" THEN "raised" ELSE "next"

\* lines 368-374: where resilient_locate is after await strategy(): the
\* except clause logs and the loop goes on
AfterStrategy(outcome) == "next"

\* a resolver that drops the memory tier
ResolverStore_Evicting(s) == [s EXCEPT !.cache = EmptyDict]

\* the store after a step of resilient_locate: neither lines 324-379 nor the
\* strategies call the cache, and the get_state they await is the one
\* ExtendedBrowserContext inherits
ResolverStore(s) == s

InitResolve ==
    /\ StoreInit /\ KeyIdle /\ PeerIdle /\ TaskIdle /\ SampleIdle /\ InstIdle /\ ActionIdle /\ LookupIdle
    /\ v_size = validation_sample_size /\ v_count = 0 /\ v_pc = "idle"
    /\ v_outcomes = <<>> /\ valid_count = 0 /\ v_result = FALSE
    /\ d_old = EmptyDict /\ d_fresh = EmptyDict /\ d_out = <<>>
    /\ m_old = <<>> /\ m_new = <<>> /\ m_out = <<>>
    /\ r_params \in Descriptions
    /\ r_max \in 0..MaxAttempts
    /\ r_pc = "index" /\ r_attempt = 0 /\ r_pos = 1
    /\ r_calls = <<>> /\ r_result = <<>>
    /\ r_sleeps = 0 /\ r_env = "ok" /\ r_faulted = FALSE

\* lines 336-366: the index, when given, convertible and resolved by
\* get_element, is returned; otherwise the strategies are built and the
\* loop is entered, or None is returned when there is nothing to loop over
LocateIndex(element_found) ==
    LET index == ParamGet(r_params, "index", "")
    IN /\ r_pc = "index"
       /\ IF "index" \in DOMAIN r_params /\ index \in DOMAIN IntOf /\ element_found
          THEN r_pc' = "done" /\ r_result' = <<IntOf[index]>>
          ELSE /\ r_result' = <<>>
               /\ r_pc' = IF strategies(r_params) = <<>> \/ r_max <= 0
                          THEN "done" ELSE "loop"
       /\ SetStore(ResolverStore(StoreState))
       /\ UNCHANGED <<now, pageVars, last, observed, validateVars, diffVars, modVars,
                      keyVars, peerVars, taskVars, sampleVars, instVars, actionVars, lookupVars, r_params, r_max, r_attempt, r_pos, r_calls, r_sleeps>>

\* lines 367-377: await strategy(); an index is returned at once, None or
\* an exception leads to the next strategy, the next attempt, or the
\* return None of line 379
InvokeStrategy(outcome) ==
    LET strategy == strategies(r_params)[r_pos]
        found == outcome.kind = "index"
    IN /\ r_pc = "loop"
       /\ r_calls' = Append(r_calls, [attempt |-> r_attempt, strategy |-> strategy,
                                      found |-> found, index |-> outcome.index])
       /\ IF AfterStrategy(outcome) = "raised"
          THEN /\ r_pc' = "raised"
               /\ UNCHANGED <<r_attempt, r_pos, r_result, r_sleeps>>
          ELSE IF found
          THEN /\ r_pc' = "done" /\ r_result' = <<outcome.index>>
               /\ UNCHANGED <<r_attempt, r_pos, r_sleeps>>
          ELSE IF r_pos < Len(strategies(r_params))
          THEN /\ r_pos' = r_pos + 1
               /\ UNCHANGED <<r_pc, r_attempt, r_result, r_sleeps>>
          ELSE /\ r_pos' = 1
               /\ r_attempt' = r_attempt + 1
               /\ r_pc' = IF AnotherAttempt(r_attempt, r_max) THEN "loop" ELSE "done"
               /\ r_sleeps' = IF AnotherAttempt(r_attempt, r_max)
                               THEN r_sleeps + 1 ELSE r_sleeps
               /\ UNCHANGED r_result
       /\ SetStore(ResolverStore(StoreState))
       /\ UNCHANGED <<now, pageVars, last, observed, validateVars, diffVars, modVars,
                      keyVars, peerVars, taskVars, sampleVars, instVars, actionVars, lookupVars, r_params, r_max>>

NextResolve ==
    \/ \E element_found \in BOOLEAN :
          LocateIndex(element_found) /\ UNCHANGED <<r_env, r_faulted>>
    \/ \E outcome \in StrategyOutcomes :
          InvokeStrategy(outcome) /\ UNCHANGED <<r_env, r_faulted>>

SpecResolve == InitResolve /\ [][NextResolve]_vars

\* the event loop runs the coroutine on: every await of a strategy returns
SpecResolveLive == SpecResolve /\ WF_vars(NextResolve)

Rank == [selector |-> 1, role |-> 2, text |-> 3]

\* the description supplies the strategy
Supplied(strategy) == ParamGet(r_params, strategy, "") # ""

StrategyCount == Cardinality({k \in {"selector", "role", "text"} : Supplied(k)})

\* C19: every invocation is of a supplied strategy; within an attempt the
\* strategies run in the order selector, role, text, each only after every
\* supplied strategy before it failed in that attempt; attempts never go
\* back; nothing is invoked after a success, and the index returned is that
\* of the strategy that succeeded.
C19_ResolverOrdering ==
    \A i \in 1..Len(r_calls) :
        LET c == r_calls[i]
        IN /\ Supplied(c.strategy)
           /\ \A k \in {"selector", "role", "text"} :
                 (Supplied(k) /\ Rank[k] < Rank[c.strategy])
                 => \E j \in 1..(i - 1) : /\ r_calls[j].attempt = c.attempt
                                          /\ r_calls[j].strategy = k
                                          /\ ~r_calls[j].found
           /\ \A j \in 1..(i - 1) :
                 /\ r_calls[j].attempt <= c.attempt
                 /\ r_calls[j].attempt = c.attempt
                    => Rank[r_calls[j].strategy] < Rank[c.strategy]
                 /\ ~r_calls[j].found
           /\ c.found => /\ r_pc = "done"
                         /\ r_result = <<c.index>>

\* the selector matched nothing, then the text strategy found index 1
C19_Witness ==
    /\ r_pc = "done" /\ r_result = <<1>>
    /\ Len(r_calls) = 2
    /\ r_calls[1].strategy = "selector" /\ ~r_calls[1].found
    /\ r_calls[2].strategy = "text" /\ r_calls[2].found
    /\ r_calls[2].attempt = 0

\* C20: resilient_locate always returns; it never invokes more than
\* max_attempts x strategyCount strategies nor goes beyond attempt
\* max_attempts - 1, and when it returns None every one of the
\* max_attempts x strategyCount invocations was made and failed.
C20_Exhaustion ==
    /\ [](/\ Len(r_calls) <= r_max * StrategyCount
          /\ \A i \in 1..Len(r_calls) : r_calls[i].attempt < r_max
          /\ (r_pc = "done" /\ r_result = <<>>)
             => /\ Len(r_calls) = r_max * StrategyCount
                /\ \A i \in 1..Len(r_calls) : ~r_calls[i].found)
    /\ <>(r_pc = "done")

\* three attempts of three strategies each failed, None was returned
C20_Witness ==
    /\ r_pc = "done" /\ r_result = <<>>
    /\ r_max = 3 /\ StrategyCount = 3
    /\ Len(r_calls) = 9

----------------------------------------------------------------------------
(* Strings of the Resolver: Python str methods on the characters *)

\* the characters of the strings the Resolver lower-cases, splits or searches
Chars ==
    ("" :> <<>>)
    @@ ("OK" :> <<"O", "K">>)
    @@ ("ok" :> <<"o", "k">>)
    @@ ("K" :> <<"K">>)
    @@ ("OK go" :> <<"O", "K", " ", "g", "o">>)
    @@ (" OK  go " :> <<" ", "O", "K", " ", "\t", "g", "o", " ">>)
    @@ ("Go" :> <<"G", "o">>)
    @@ ("Home" :> <<"H", "o", "m", "e">>)
    @@ ("button" :> <<"b", "u", "t", "t", "o", "n">>)
    @@ ("BUTTON" :> <<"B", "U", "T", "T", "O", "N">>)
    @@ ("Button" :> <<"B", "u", "t", "t", "o", "n">>)
    @@ ("a" :> <<"a">>)
    @@ ("link" :> <<"l", "i", "n", "k">>)
    @@ ("display: none" :> <<"d", "i", "s", "p", "l", "a", "y", ":", " ", "n", "o", "n", "e">>)
    @@ ("DISPLAY: NONE" :> <<"D", "I", "S", "P", "L", "A", "Y", ":", " ", "N", "O", "N", "E">>)
    @@ ("display:none" :> <<"d", "i", "s", "p", "l", "a", "y", ":", "n", "o", "n", "e">>)
    @@ ("visibility: hidden" :> <<"v", "i", "s", "i", "b", "i", "l", "i", "t", "y", ":", " ",
                                  "h", "i", "d", "d", "e", "n">>)
    @@ ("color: red" :> <<"c", "o", "l", "o", "r", ":", " ", "r", "e", "d">>)
    @@ ("1" :> <<"1">>) @@ ("2" :> <<"2">>) @@ ("3" :> <<"3">>)
    @@ ("/" :> <<"/">>) @@ ("[" :> <<"[">>) @@ ("]" :> <<"]">>)
    @@ ("/html/body" :> <<"/", "h", "t", "m", "l", "/", "b", "o", "d", "y">>)
    @@ ("//*[@id=\"" :> <<"/", "/", "*", "[", "@", "i", "d", "=", "\"">>)
    @@ ("\"]" :> <<"\"", "]">>)
    @@ ("//*[@id=\"ok\"]" :> <<"/", "/", "*", "[", "@", "i", "d", "=", "\"", "o", "k", "\"", "]">>)
    @@ ("/html/body/a[1]" :> <<"/", "h", "t", "m", "l", "/", "b", "o", "d", "y", "/", "a",
                               "[", "1", "]">>)
    @@ ("/html/body/a[2]" :> <<"/", "h", "t", "m", "l", "/", "b", "o", "d", "y", "/", "a",
                               "[", "2", "]">>)
    @@ ("html/body/button" :> <<"h", "t", "m", "l", "/", "b", "o", "d", "y", "/",
                                "b", "u", "t", "t", "o", "n">>)

UpperCase == <<"A", "B", "C", "D", "E", "F", "G", "H", "I", "J", "K", "L", "M",
               "N", "O", "P", "Q", "R", "S", "T", "U", "V", "W", "X", "Y", "Z">>
LowerCase == <<"a", "b", "c", "d", "e", "f", "g", "h", "i", "j", "k", "l", "m",
               "n", "o", "p", "q", "r", "s", "t", "u", "v", "w", "x", "y", "z">>

\* str.lower()
Lower(s) ==
    [i \in 1..Len(s) |->
        IF \E j \in 1..26 : UpperCase[j] = s[i]
        THEN LowerCase[CHOOSE j \in 1..26 : UpperCase[j] = s[i]]
        ELSE s[i]]

\* sub in s
Contains(sub, s) ==
    \E i \in 0..(Len(s) - Len(sub)) : SubSeq(s, i + 1, i + Len(sub)) = sub

\* str.isspace() of one character
IsSpace(c) == c \in {" ", "\t", "\n"}

RECURSIVE Split(_)
\* str.split(): the maximal runs of characters that are not whitespace
Split(s) ==
    IF s = <<>> THEN <<>>
    ELSE IF IsSpace(Head(s)) THEN Split(Tail(s))
    ELSE IF Len(s) > 1 /\ ~IsSpace(s[2])
    THEN LET rest == Split(Tail(s))
         IN <<<<Head(s)>> \o Head(rest)>> \o Tail(rest)
    ELSE <<<<Head(s)>>>> \o Split(Tail(s))

RECURSIVE Join(_, _)
\* sep.join(words)
Join(sep, words) ==
    IF words = <<>> THEN <<>>
    ELSE IF Len(words) = 1 THEN words[1]
    ELSE words[1] \o sep \o Join(sep, Tail(words))

----------------------------------------------------------------------------
(* The strategies of the Resolver on one snapshot *)

\* ElementHelper.is_hidden
is_hidden(element) ==
    LET style == Lower(Chars[ParamGet(element.attributes, "style", "")])
    IN \/ "is_hidden" \in DOMAIN element /\ element.is_hidden
       \/ Contains(Chars["display: none"], style)
       \/ Contains(Chars["visibility: hidden"], style)
       \/ "hidden" \in DOMAIN element.attributes

\* a lookup that finds no element
get_element_Missing(smap, index, get_state) == <<>>

\* ElementHelper.get_element: selector_map.get(index), None when get_state
\* raises
get_element(smap, index, get_state) ==
    IF get_state = "ok" /\ index \in DOMAIN smap THEN <<smap[index]>> ELSE <<>>

\* the first of the indices the loop over selector_map.items() accepts;
\* the snapshot inserts the elements in the order of their indices
FirstIndex(hits) ==
    IF hits = {} THEN <<>>
    ELSE <<CHOOSE i \in hits : \A j \in hits : i <= j>>

\* an exact mode that ignores the case
TextAccepts_FoldedExact(element, text, exact, tag) ==
    /\ ~is_hidden(element)
    /\ ~(tag # "" /\ Lower(Chars[element.tag_name]) # Lower(Chars[tag]))
    /\ IF exact
       THEN Lower(Join(<<" ">>, Split(Chars[element.text])))
            = Lower(Join(<<" ">>, Split(Chars[text])))
       ELSE Contains(Lower(Chars[text]), Lower(Chars[element.text]))

\* lines 198-221: the test of find_by_text on one element
TextAccepts(element, text, exact, tag) ==
    /\ ~is_hidden(element)
    /\ ~(tag # "" /\ Lower(Chars[element.tag_name]) # Lower(Chars[tag]))
    /\ IF exact
       THEN Join(<<" ">>, Split(Chars[element.text])) = Join(<<" ">>, Split(Chars[text]))
       ELSE Contains(Lower(Chars[text]), Lower(Chars[element.text]))

\* ElementHelper.find_by_text on the snapshots of its polls: the index of the
\* first element accepted, None when no poll finds one or get_state raises
find_by_text(smap, text, exact, tag, get_state) ==
    IF get_state = "ok"
    THEN FirstIndex({i \in DOMAIN smap : TextAccepts(smap[i], text, exact, tag)})
    ELSE <<>>

\* lines 237-259: the test of find_by_role on one element; the name is
\* searched in get_all_text_till_next_clickable_element()
RoleAccepts(element, role, name) ==
    /\ ~is_hidden(element)
    /\ Lower(Chars[ParamGet(element.attributes, "role", "")]) = Lower(Chars[role])
    /\ name # "" => Contains(Lower(Chars[name]), Lower(Chars[element.text]))

\* ElementHelper.find_by_role on the snapshots of its polls
find_by_role(smap, role, name, get_state) ==
    IF get_state = "ok"
    THEN FirstIndex({i \in DOMAIN smap : RoleAccepts(smap[i], role, name)})
    ELSE <<>>

\* the selectors of the model as document.querySelector reads them
Selectors ==
    ("#ok" :> [kind |-> "id", id |-> "ok"])
    @@ ("#1x" :> [kind |-> "id", id |-> "1x"])
    @@ ("a" :> [kind |-> "compound", tag |-> "a", attrs |-> <<>>, cls |-> <<>>])

\* getElementXPath of the script of lines 286-307 for the node of that
\* index; the nodes of the model are the children of document.body
getElementXPath(smap, i) ==
    LET node == smap[i]
        tagName == Lower(Chars[node.tag_name])
        ix == Cardinality({j \in DOMAIN smap :
                              j < i /\ Lower(Chars[smap[j].tag_name]) = tagName})
    IN IF Truthy(node.attributes, "id")
       THEN Chars["//*[@id=\""] \o Chars[node.attributes["id"]] \o Chars["\"]"]
       ELSE Chars["/html/body"] \o Chars["/"] \o tagName
            \o Chars["["] \o Chars[IndexStr[ix + 1]] \o Chars["]"]

\* ElementHelper.find_by_selector: get_current_page is awaited outside the
\* try; inside it the selector is evaluated on the live nodes, the XPath of
\* the first node it matches is computed, and the first element of the
\* snapshot with that xpath is returned
find_by_selector(smap, selector, env) ==
    LET matches == {i \in DOMAIN smap : SelectorMatches(smap[i], Selectors[selector])}
        el == CHOOSE i \in matches : \A j \in matches : i <= j
        xpath == getElementXPath(smap, el)
        hit == FirstIndex({i \in DOMAIN smap : Chars[smap[i].xpath] = xpath})
    IN IF env.get_current_page = "raise" THEN NoIndex("raise")
       ELSE IF \/ env.evaluate = "raise"
               \/ SelectorInvalid(Selectors[selector])
               \/ matches = {}
               \/ env.get_state = "raise"
               \/ hit = <<>>
       THEN NoIndex("none")
       ELSE Found(hit[1])

\* a text strategy that returns None without a look at the page
InvokeOn_TextBlind(strategy, params, smap, env) ==
    IF strategy = "selector" THEN find_by_selector(smap, params["selector"], env)
    ELSE IF strategy = "role"
    THEN LET r == find_by_role(smap, params["role"], ParamGet(params, "name", ""),
                               env.get_state)
         IN IF r = <<>> THEN NoIndex("none") ELSE Found(r[1])
    ELSE NoIndex("none")

\* lines 351-359: the strategy of that name, awaited on the snapshot
InvokeOn(strategy, params, smap, env) ==
    LET AsOutcome(r) == IF r = <<>> THEN NoIndex("none") ELSE Found(r[1])
    IN CASE strategy = "selector" -> find_by_selector(smap, params["selector"], env)
         [] strategy = "role" ->
              AsOutcome(find_by_role(smap, params["role"], ParamGet(params, "name", ""),
                                     env.get_state))
         [] strategy = "text" ->
              AsOutcome(find_by_text(smap, params["text"], ParamGet(params, "exact", FALSE),
                                     ParamGet(params, "tag", ""), env.get_state))

----------------------------------------------------------------------------
(* The Resolver on a live page that changes while it runs *)

\* a link, a second link, and a button that is shown, carries the hidden
\* attribute, or is styled away without the blank after the colon
LinkHome == DomElement("/html/body/a[1]", "a", ("role" :> "link"), "Home", TRUE)
LinkMore == DomElement("/html/body/a[2]", "a", ("role" :> "link"), "Go", TRUE)
BtnShown ==
    DomElement("//*[@id=\"ok\"]", "BUTTON", ("id" :> "ok") @@ ("role" :> "button"), "OK", TRUE)
BtnHidden ==
    DomElement("//*[@id=\"ok\"]", "BUTTON",
               ("id" :> "ok") @@ ("role" :> "button") @@ ("hidden" :> ""), "OK", TRUE)
BtnStyled ==
    DomElement("//*[@id=\"ok\"]", "BUTTON",
               ("id" :> "ok") @@ ("role" :> "button") @@ ("style" :> "display:none"),
               "OK", TRUE)

LivePlain == (1 :> LinkHome)
LiveShown == (1 :> LinkHome) @@ (3 :> BtnShown)
LiveHidden == (1 :> LinkHome) @@ (3 :> BtnHidden)
LiveStyled == (1 :> LinkHome) @@ (3 :> BtnStyled)
LiveLinks == (1 :> LinkHome) @@ (3 :> LinkMore)
LivePages == {LivePlain, LiveShown, LiveHidden, LiveStyled, LiveLinks}

\* the descriptions of the callers: each of index, selector, role, text
\* given or not
LiveDescriptions ==
    {index @@ selector @@ role @@ text :
        index \in {EmptyDict, "index" :> "3"},
        selector \in {EmptyDict, "selector" :> "#ok"},
        role \in {EmptyDict, "role" :> "button"},
        text \in {EmptyDict, "text" :> "ok"}}

\* how the browser answers the live operations of one step: all of them, or
\* all but one that raises
PageOk == [get_state |-> "ok", get_current_page |-> "ok", evaluate |-> "ok"]
PageFaults ==
    {[PageOk EXCEPT ![op] = "raise"] : op \in {"get_state", "get_current_page", "evaluate"}}
FaultOf(env) ==
    IF env = PageOk THEN "ok" ELSE CHOOSE op \in DOMAIN env : env[op] = "raise"

\* the live operations the strategy awaits
Awaits(strategy) ==
    IF strategy = "selector" THEN {"get_current_page", "evaluate", "get_state"}
    ELSE {"get_state"}

\* the store after the first getElements on the page
StoreAfterGet(smap) ==
    get_elements_with_cache([cache |-> EmptyDict, metadata |-> EmptyDict,
                             metadata_file |-> <<>>, cache_files |-> EmptyDict,
                             env |-> EnvOk],
                            UrlPlain, TRUE, UrlPlain, smap, 0).store

InitLocate ==
    /\ \E smap \in LivePages :
          /\ selector_map = smap
          /\ cache = StoreAfterGet(smap).cache
          /\ metadata = StoreAfterGet(smap).metadata
          /\ metadata_file = StoreAfterGet(smap).metadata_file
          /\ cache_files = StoreAfterGet(smap).cache_files
    /\ now = 0 /\ page_url = UrlPlain /\ last = Idle("init") /\ observed = <<>>
    /\ KeyIdle /\ PeerIdle /\ TaskIdle /\ SampleIdle /\ InstIdle /\ ActionIdle /\ LookupIdle
    /\ v_size = validation_sample_size /\ v_count = 0 /\ v_pc = "idle"
    /\ v_outcomes = <<>> /\ valid_count = 0 /\ v_result = FALSE
    /\ d_old = EmptyDict /\ d_fresh = EmptyDict /\ d_out = <<>>
    /\ m_old = <<>> /\ m_new = <<>> /\ m_out = <<>>
    /\ r_params \in LiveDescriptions
    /\ r_max \in 0..MaxAttempts
    /\ r_pc = "index" /\ r_attempt = 0 /\ r_pos = 1
    /\ r_calls = <<>> /\ r_result = <<>>
    /\ r_sleeps = 0 /\ r_env = "ok" /\ r_faulted = FALSE

\* lines 336-341: get_element is awaited
IndexLookedUp ==
    "index" \in DOMAIN r_params /\ r_params["index"] \in DOMAIN IntOf

\* lines 336-366 on the live page
LocateLive(env) ==
    /\ r_pc = "index"
    /\ env = PageOk \/ (IndexLookedUp /\ env.get_state = "raise")
    /\ LocateIndex(/\ IndexLookedUp
                   /\ get_element(selector_map, IntOf[r_params["index"]],
                                  env.get_state) # <<>>)
    /\ r_env' = FaultOf(env)
    /\ r_faulted' = (r_faulted \/ env # PageOk)

\* lines 367-377 on the live page
StrategyLive(env) ==
    /\ r_pc = "loop"
    /\ FaultOf(env) \in Awaits(strategies(r_params)[r_pos]) \cup {"ok"}
    /\ InvokeStrategy(InvokeOn(strategies(r_params)[r_pos], r_params, selector_map, env))
    /\ r_env' = FaultOf(env)
    /\ r_faulted' = (r_faulted \/ env # PageOk)

\* a live operation resilient_locate awaits never answers: no await of
\* lines 153-379 is under asyncio.wait_for
Hang ==
    /\ (r_pc = "index" /\ IndexLookedUp) \/ r_pc = "loop"
    /\ r_pc' = "blocked"
    /\ r_env' = "hang"
    /\ r_faulted' = TRUE
    /\ UNCHANGED <<mainVars, validateVars, diffVars, modVars, keyVars, peerVars, taskVars, sampleVars, instVars, actionVars, lookupVars, r_params, r_max,
                   r_attempt, r_pos, r_calls, r_result, r_sleeps>>

\* the page changes under the running call
LivePageChanges(smap) ==
    /\ r_pc \in {"index", "loop"}
    /\ smap # selector_map
    /\ selector_map' = smap
    /\ UNCHANGED <<storeVars, now, page_url, last, observed, validateVars, diffVars,
                   modVars, keyVars, peerVars, taskVars, sampleVars, instVars, actionVars, lookupVars, resolveVars>>

NextLocate ==
    \/ \E env \in {PageOk} \cup PageFaults : LocateLive(env)
    \/ \E env \in {PageOk} \cup PageFaults : StrategyLive(env)
    \/ Hang
    \/ \E smap \in LivePages : LivePageChanges(smap)

SpecLocate == InitLocate /\ [][NextLocate]_vars

\* the page shows the button that "#ok", the role "button" and the text
\* "ok" all describe, under index 3
ButtonShown == 3 \in DOMAIN selector_map /\ selector_map[3] = BtnShown

\* C21: every round looks at the page as it is then: a strategy invoked
\* while the page holds an element it finds, and whose live operations
\* answer, ends the call with the index of that element, in whichever round
\* the element appeared; and None is returned only after each supplied
\* strategy was invoked and failed in each of the max_attempts rounds.
C21_RetryAcrossTime ==
    /\ [][(r_pc = "loop" /\ r_calls' # r_calls /\ r_env' = "ok" /\ ButtonShown)
          => (r_pc' = "done" /\ r_result' = <<3>>)]_vars
    /\ []((r_pc = "done" /\ r_result = <<>> /\ strategies(r_params) # <<>>)
          => \A a \in 0..(r_max - 1) : \A p \in 1..Len(strategies(r_params)) :
                \E i \in 1..Len(r_calls) : /\ r_calls[i].attempt = a
                                           /\ r_calls[i].strategy = strategies(r_params)[p]
                                           /\ ~r_calls[i].found)

\* the button was not on the page in the first round and the text strategy
\* found it in the third
C21_Witness ==
    /\ r_pc = "done" /\ r_result = <<3>>
    /\ r_max = 3 /\ DOMAIN r_params = {"text"}
    /\ Len(r_calls) = 3
    /\ ~r_calls[1].found /\ ~r_calls[2].found
    /\ r_calls[3].found /\ r_calls[3].attempt = 2
    /\ ~r_faulted

\* C22: a call whose description carries an index that int() converts and
\* that the snapshot of get_element holds returns that index in its first
\* step, with no strategy invoked and no backoff awaited.
C22_ExplicitHandle ==
    [][(/\ r_pc = "index" /\ r_pc' # "index"
        /\ IndexLookedUp
        /\ IntOf[r_params["index"]] \in DOMAIN selector_map
        /\ r_env' = "ok")
       => (/\ r_pc' = "done"
           /\ r_result' = <<IntOf[r_params["index"]]>>
           /\ r_calls' = <<>>
           /\ r_sleeps' = 0)]_vars

\* index 3 was returned although the description carried a selector, a
\* role and a text as well
C22_Witness ==
    /\ r_pc = "done" /\ r_result = <<3>>
    /\ DOMAIN r_params = {"index", "selector", "role", "text"}
    /\ r_calls = <<>> /\ r_sleeps = 0
    /\ r_max = 3

\* C23: the element whose index resilient_locate returns is not hidden, as
\* is_hidden tells, whichever of the index, the selector, the role and the
\* text led to it.
C23_HiddenNeverResolved ==
    (r_pc = "done" /\ r_result # <<>> /\ r_result[1] \in DOMAIN selector_map)
    => ~is_hidden(selector_map[r_result[1]])

\* C24: a strategy or an index lookup whose live operation fails does not
\* end the call with an exception: the invocation counts as one that
\* found nothing, and the call goes on with the next strategy, the next
\* round, or returns None when that was the last invocation of the last
\* round.
C24_FailureNotFatal ==
    [][(/\ r_pc' # r_pc \/ r_calls' # r_calls
        /\ r_env' \in {"get_state", "get_current_page", "evaluate"})
       => \/ /\ r_pc = "index"
             /\ r_calls' = <<>> /\ r_result' = <<>>
             /\ r_pc' = IF strategies(r_params) = <<>> \/ r_max <= 0 THEN "done" ELSE "loop"
          \/ /\ r_pc = "loop"
             /\ Len(r_calls') = Len(r_calls) + 1
             /\ ~r_calls'[Len(r_calls')].found
             /\ r_result' = <<>>
             /\ IF r_pos < Len(strategies(r_params))
                THEN r_pc' = "loop" /\ r_pos' = r_pos + 1 /\ r_attempt' = r_attempt
                ELSE IF r_attempt + 1 < r_max
                THEN r_pc' = "loop" /\ r_pos' = 1 /\ r_attempt' = r_attempt + 1
                ELSE r_pc' = "done"]_vars

\* a strategy failed on its live operation and a later one found the button
C24_Witness ==
    /\ r_pc = "done" /\ r_result = <<3>>
    /\ "index" \notin DOMAIN r_params
    /\ r_faulted /\ r_env = "ok"
    /\ Len(r_calls) >= 2
    /\ ~r_calls[1].found

\* C27: no step of resilient_locate changes the store: the memory tier,
\* the index and the files of every key stay as they were.
C27_ResolverOwnership ==
    [][(r_pc' # r_pc \/ r_calls' # r_calls)
       => /\ cache' = cache
          /\ metadata' = metadata
          /\ metadata_file' = metadata_file
          /\ cache_files' = cache_files]_vars

\* a call went through all its rounds over a store that holds the page
C27_Witness ==
    /\ r_pc = "done" /\ Len(r_calls) = 9
    /\ cache # EmptyDict /\ metadata # EmptyDict /\ cache_files # EmptyDict
    /\ cache = StoreAfterGet(LivePlain).cache

\* C30: no call of resilient_locate is left waiting on a live operation
\* that never answers.
C30_BoundedLiveOperations == ~(r_pc = "blocked" /\ r_env = "hang")

\* C31: the explicit index is looked up anew at the head of every round: a
\* round that starts while the description carries an index the page
\* holds, and whose live operations answer, returns that index, ahead of
\* the selector, the role and the text.
C31_HandlePerAttempt ==
    [][(/\ r_pc = "loop" /\ r_pos = 1 /\ r_calls' # r_calls
        /\ IndexLookedUp
        /\ IntOf[r_params["index"]] \in DOMAIN selector_map
        /\ r_env' = "ok")
       => (r_pc' = "done" /\ r_result' = <<IntOf[r_params["index"]]>>)]_vars

----------------------------------------------------------------------------
(* find_by_text on one snapshot *)

\* elements with the texts, tags and ways of hiding the search meets
TextElements ==
    {DomElement("", "BUTTON", EmptyDict, " OK  go ", TRUE),
     DomElement("", "a", ("hidden" :> ""), "OK", TRUE),
     DomElement("", "button", EmptyDict, "ok", TRUE),
     DomElement("", "a", ("style" :> "DISPLAY: NONE"), "OK go", TRUE),
     DomElement("", "a", ("style" :> "color: red"), "OK go", TRUE),
     [is_hidden |-> TRUE] @@ DomElement("", "button", EmptyDict, "OK", TRUE)}

\* the arguments text, exact and tag (None is "")
TextQueries ==
    [text : {"", "OK", "ok", "K", "OK go", " OK  go "},
     exact : BOOLEAN,
     tag : {"", "button", "BUTTON", "a"}]

InitText ==
    /\ cache = EmptyDict /\ metadata = EmptyDict
    /\ metadata_file = <<>> /\ cache_files = EmptyDict
    /\ now = 0 /\ page_url = UrlPlain /\ last = Idle("init") /\ observed = <<>>
    /\ selector_map \in [1..MaxElements -> TextElements]
    /\ KeyIdle /\ PeerIdle /\ TaskIdle /\ SampleIdle /\ InstIdle /\ ActionIdle /\ LookupIdle
    /\ v_size = validation_sample_size /\ v_count = 0 /\ v_pc = "idle"
    /\ v_outcomes = <<>> /\ valid_count = 0 /\ v_result = FALSE
    /\ d_old = EmptyDict /\ d_fresh = EmptyDict /\ d_out = <<>>
    /\ m_old = <<>> /\ m_new = <<>> /\ m_out = <<>>
    /\ r_params \in TextQueries
    /\ r_max = 0 /\ r_pc = "text" /\ r_attempt = 0 /\ r_pos = 0
    /\ r_calls = <<>> /\ r_result = <<>>
    /\ r_sleeps = 0 /\ r_env = "ok" /\ r_faulted = FALSE

\* await ElementHelper.find_by_text(context, text, exact, tag)
FindByText ==
    /\ r_pc = "text"
    /\ r_result' = find_by_text(selector_map, r_params.text, r_params.exact,
                                r_params.tag, "ok")
    /\ r_pc' = "done"
    /\ UNCHANGED <<mainVars, validateVars, diffVars, modVars, keyVars, peerVars, taskVars, sampleVars, instVars, actionVars, lookupVars, r_params, r_max,
                   r_attempt, r_pos, r_calls, r_sleeps, r_env, r_faulted>>

NextText == FindByText

SpecText == InitText /\ [][NextText]_vars

\* the two characters are the same letter in either case, or the same
\* character
SameLetter(c, d) ==
    \/ c = d
    \/ \E j \in 1..26 : {c, d} \subseteq {UpperCase[j], LowerCase[j]}

\* the words of the string: its maximal runs without whitespace, numbered
\* from the left
WordsOf(s) ==
    LET Runs == {r \in (1..Len(s)) \X (1..Len(s)) :
                    /\ r[1] <= r[2]
                    /\ \A i \in r[1]..r[2] : ~s[i] \in {" ", "\t", "\n"}
                    /\ r[1] = 1 \/ s[r[1] - 1] \in {" ", "\t", "\n"}
                    /\ r[2] = Len(s) \/ s[r[2] + 1] \in {" ", "\t", "\n"}}
    IN {<<Cardinality({q \in Runs : q[1] < r[1]}) + 1, SubSeq(s, r[1], r[2])>> : r \in Runs}

\* the element matches the query as the text search is described
TextMatch(element, query) ==
    LET t == Chars[query.text]
        et == Chars[element.text]
        tg == Chars[query.tag]
        etg == Chars[element.tag_name]
    IN /\ ~is_hidden(element)
       /\ \/ query.tag = ""
          \/ Len(tg) = Len(etg) /\ \A i \in 1..Len(tg) : SameLetter(tg[i], etg[i])
       /\ IF query.exact
          THEN WordsOf(et) = WordsOf(t)
          ELSE \E k \in 0..(Len(et) - Len(t)) :
                  \A i \in 1..Len(t) : SameLetter(t[i], et[k + i])

\* C29: find_by_text returns the first element in snapshot order that is
\* not hidden, has the tag asked for (whatever the case) and whose text, in
\* exact mode, has the same words as the search text (equal once runs of
\* whitespace are one blank and the ends are trimmed, case kept), in fuzzy
\* mode holds the search text when both are lower-cased; it returns None
\* when there is no such element.
C29_TextMatching ==
    r_pc = "done"
    => LET M == {i \in DOMAIN selector_map : TextMatch(selector_map[i], r_params)}
       IN IF M = {} THEN r_result = <<>>
          ELSE /\ r_result # <<>>
               /\ r_result[1] \in M
               /\ \A j \in M : r_result[1] <= j

\* the exact search "OK go" passed over the element hidden by its style
\* and returned the button whose text has the blanks elsewhere
C29_Witness ==
    /\ r_pc = "done" /\ r_result = <<2>>
    /\ r_params = [text |-> "OK go", exact |-> TRUE, tag |-> "button"]
    /\ selector_map[1].text = "OK go" /\ is_hidden(selector_map[1])
    /\ selector_map[2].text = " OK  go " /\ selector_map[2].tag_name = "BUTTON"

----------------------------------------------------------------------------
(* The locators of the entries a snapshot leaves in the store *)

\* an element without xpath, id and class, and one whose id is empty
SpanBare == DomElement("", "span", EmptyDict, "x", TRUE)
DivNoId == DomElement("", "div", ("id" :> ""), "", TRUE)

SnapshotElements == {BtnOk, BtnGo, LinkNav, InputBad, SpanBare, DivNoId}

InitSnapshot ==
    /\ cache = EmptyDict /\ metadata = EmptyDict
    /\ metadata_file = <<>> /\ cache_files = EmptyDict
    /\ now = 0 /\ page_url = UrlPlain /\ last = Idle("init") /\ observed = <<>>
    /\ selector_map \in [1..MaxElements -> SnapshotElements]
    /\ PureInit

NextSnapshot ==
    \E force_refresh \in BOOLEAN : GetElements(UrlPlain, force_refresh, EnvOk)

SpecSnapshot == InitSnapshot /\ [][NextSnapshot]_vars

\* the entry has a locator whose value is not empty
HasLocator(entry) ==
    \E k \in DOMAIN entry.locators : k = "css" \/ entry.locators[k] # ""

\* C28: every entry of the element sets in the memory tier and in the
\* files has at least one locator with a value that is not empty.
C28_LocatorInvariant ==
    /\ \A key \in DOMAIN cache : \A h \in DOMAIN cache[key] : HasLocator(cache[key][h])
    /\ \A key \in DOMAIN cache_files :
          "elements" \in DOMAIN cache_files[key]
          => \A h \in DOMAIN cache_files[key].elements :
                HasLocator(cache_files[key].elements[h])

----------------------------------------------------------------------------
(* store_elements of one instance seen by another instance on the directory *)

\* store_elements as far as the open(cache_file, 'w') of line 200: the
\* memory tier, the index and metadata.json are written and the per-key file
\* is truncated; until json.dump has run and the file is closed it holds
\* text json.load rejects
store_elements_opened(s, url, elements, params, t) ==
    [store_elements([s EXCEPT !.env = [EnvOk EXCEPT !.file_write = "torn"]],
                    url, elements, params, t)
        EXCEPT !.env = s.env]

\* the element set of the per-key file, <<>> when there is no file or
\* json.load rejects it
DurableSet(files, cache_key) ==
    IF cache_key \in DOMAIN files /\ "elements" \in DOMAIN files[cache_key]
    THEN <<files[cache_key].elements>> ELSE <<>>

InitPeer ==
    /\ StoreInit /\ KeyIdle /\ ResolveIdle /\ TaskIdle /\ SampleIdle /\ InstIdle /\ ActionIdle /\ LookupIdle
    /\ v_size = validation_sample_size /\ v_count = 0 /\ v_pc = "idle"
    /\ v_outcomes = <<>> /\ valid_count = 0 /\ v_result = FALSE
    /\ d_old = EmptyDict /\ d_fresh = EmptyDict /\ d_out = <<>>
    /\ m_old = <<>> /\ m_new = <<>> /\ m_out = <<>>
    /\ PeerIdle

\* store_elements(url, elements, params) up to the open of the per-key file
PutOpen(url, params, elements) ==
    LET key == _generate_cache_key(url, params)
        s == store_elements_opened(StoreState, url, elements, params, now)
    IN /\ w_pc = "idle"
       /\ s.metadata[key].version <= MaxVersion
       /\ SetStore(s)
       /\ w_pc' = "open" /\ w_key' = key /\ w_elements' = elements
       /\ w_prev' = DurableSet(cache_files, key)
       /\ p_seen' = <<>>
       /\ last' = [Idle("put") EXCEPT !.url = url, !.key = key, !.params = params,
                                      !.elements = elements, !.put_keys = <<key>>]
       /\ UNCHANGED <<now, pageVars, observed, validateVars, diffVars, modVars, keyVars,
                      taskVars, sampleVars, instVars, actionVars, lookupVars, resolveVars>>

\* lines 200-202: json.dump has written cache_data and the file is closed
PutClose ==
    /\ w_pc = "open"
    /\ cache_files' = DictSet(cache_files, w_key,
                              [metadata |-> [url |-> last.url, timestamp |-> now,
                                             element_count |-> Cardinality(DOMAIN w_elements)],
                               elements |-> JsonObject(w_elements)])
    /\ w_pc' = "idle"
    /\ p_seen' = <<>>
    /\ UNCHANGED <<cache, metadata, metadata_file, now, pageVars, last, observed,
                   validateVars, diffVars, modVars, keyVars, w_key, w_elements, w_prev,
                   taskVars, sampleVars, instVars, actionVars, lookupVars, resolveVars>>

\* another process constructs an ElementCache on the directory and calls
\* get_elements(url, params): its memory tier is its own
PeerGet(url, params) ==
    /\ p_seen' = <<[key |-> _generate_cache_key(url, params),
                     elements |-> get_elements(new_instance(StoreState), url, params).elements]>>
    /\ UNCHANGED <<mainVars, validateVars, diffVars, modVars, keyVars, w_pc, w_key,
                   w_elements, w_prev, taskVars, sampleVars, instVars, actionVars, lookupVars, resolveVars>>

NextPeer ==
    \/ \E params \in ParamDicts, elements \in ElementSets : PutOpen(UrlPlain, params, elements)
    \/ PutClose
    \/ \E params \in ParamDicts : PeerGet(UrlPlain, params)

SpecPeer == InitPeer /\ [][NextPeer]_vars

\* C26: what get_elements of the other instance returns for the key is the
\* set the file holds when no store_elements is under way, and while one is
\* under way the set the file held before it or the set being written.
C26_NoTornReads ==
    p_seen # <<>>
    => LET writing == w_pc = "open" /\ w_key = p_seen[1].key
           before == IF writing THEN w_prev ELSE DurableSet(cache_files, p_seen[1].key)
       IN \/ p_seen[1].elements = (IF before = <<>> THEN EmptyDict ELSE before[1])
          \/ writing /\ p_seen[1].elements = w_elements

----------------------------------------------------------------------------
(* Two get_elements_with_cache tasks of one manager, switching at the awaits *)

Tasks == {1, 2}

\* the stores the tasks may find: nothing cached, or the page with the
\* button and the link cached by an earlier call
StartStores ==
    {[cache |-> EmptyDict, metadata |-> EmptyDict, metadata_file |-> <<>>,
      cache_files |-> EmptyDict, env |-> EnvOk],
     StoreAfterGet(PageFull)}

NoLocals == [params |-> EmptyDict, cached_elements |-> EmptyDict]

InitTasks ==
    /\ \E s \in StartStores :
          /\ cache = s.cache /\ metadata = s.metadata
          /\ metadata_file = s.metadata_file /\ cache_files = s.cache_files
          /\ c_start = s
    /\ now = 0 /\ page_url = UrlPlain /\ last = Idle("init") /\ observed = <<>>
    /\ selector_map \in {PageFull, PageEdited}
    /\ KeyIdle /\ ResolveIdle /\ PeerIdle /\ SampleIdle /\ InstIdle /\ ActionIdle /\ LookupIdle
    /\ v_size = validation_sample_size /\ v_count = 0 /\ v_pc = "idle"
    /\ v_outcomes = <<>> /\ valid_count = 0 /\ v_result = FALSE
    /\ d_old = EmptyDict /\ d_fresh = EmptyDict /\ d_out = <<>>
    /\ m_old = <<>> /\ m_new = <<>> /\ m_out = <<>>
    /\ c_pc = [t \in Tasks |-> "url"]
    /\ c_force \in [Tasks -> BOOLEAN]
    /\ c_local = [t \in Tasks |-> NoLocals]
    /\ c_ret = [t \in Tasks |-> <<>>]

\* a task comes to its return statement
Return(t, r) ==
    /\ \A k \in DOMAIN r.store.metadata : r.store.metadata[k].version <= MaxVersion
    /\ SetStore(r.store)
    /\ c_ret' = [c_ret EXCEPT ![t] = <<r.elements>>]
    /\ c_pc' = [c_pc EXCEPT ![t] = "done"]
    /\ UNCHANGED c_local

\* lines 39-54: _get_current_url has answered; the task runs on to its next
\* await, that of _fetch_fresh_elements or that of validate_cache
TaskUrl(t) ==
    LET params == _extract_url_params(page_url)
        got == get_elements(StoreState, UrlPlain, params)
    IN /\ c_pc[t] = "url"
       /\ IF c_force[t] \/ _should_refresh_cache(StoreState, UrlPlain, params, now)
          THEN /\ c_pc' = [c_pc EXCEPT ![t] = "fetch"]
               /\ c_local' = [c_local EXCEPT ![t].params = params]
               /\ UNCHANGED storeVars
          ELSE /\ SetStore(got.store)
               /\ c_local' = [c_local EXCEPT ![t] = [params |-> params,
                                                     cached_elements |-> got.elements]]
               /\ c_pc' = [c_pc EXCEPT ![t] = IF got.elements = EmptyDict
                                              THEN "fetch" ELSE "validate"]
       /\ UNCHANGED <<now, pageVars, last, observed, validateVars, diffVars, modVars,
                      keyVars, peerVars, sampleVars, instVars, actionVars, lookupVars, c_force, c_ret, c_start, resolveVars>>

\* lines 46-49 and 57-59: _fetch_fresh_elements has answered; the task
\* stores the snapshot and returns it
TaskFetch(t) ==
    /\ c_pc[t] = "fetch"
    /\ Return(t, FullRefresh(StoreState, UrlPlain, c_local[t].params, selector_map, now,
                             "refresh"))
    /\ UNCHANGED <<now, pageVars, last, observed, validateVars, diffVars, modVars,
                   keyVars, peerVars, sampleVars, instVars, actionVars, lookupVars, c_force, c_start, resolveVars>>

\* lines 62-69: validate_cache has answered; the task returns the cached
\* set or goes on to update_cache_with_diff
TaskValidate(t) ==
    /\ c_pc[t] = "validate"
    /\ IF validate_cache(LiveNodes(selector_map), c_local[t].cached_elements,
                         validation_sample_size)
       THEN Return(t, UseCached(StoreState, UrlPlain, c_local[t].params,
                                c_local[t].cached_elements, now))
       ELSE /\ c_pc' = [c_pc EXCEPT ![t] = "diff"]
            /\ UNCHANGED <<storeVars, c_local, c_ret>>
    /\ UNCHANGED <<now, pageVars, last, observed, validateVars, diffVars, modVars,
                   keyVars, peerVars, sampleVars, instVars, actionVars, lookupVars, c_force, c_start, resolveVars>>

\* lines 266-294: the snapshot of update_cache_with_diff has answered; the
\* task merges, stores and returns
TaskDiff(t) ==
    /\ c_pc[t] = "diff"
    /\ Return(t, update_cache_with_diff(StoreState, UrlPlain, c_local[t].cached_elements,
                                        selector_map, now))
    /\ UNCHANGED <<now, pageVars, last, observed, validateVars, diffVars, modVars,
                   keyVars, peerVars, sampleVars, instVars, actionVars, lookupVars, c_force, c_start, resolveVars>>

NextTasks ==
    \E t \in Tasks : TaskUrl(t) \/ TaskFetch(t) \/ TaskValidate(t) \/ TaskDiff(t)

SpecTasks == InitTasks /\ [][NextTasks]_vars

\* the store and the return values when the call of task first runs to its
\* end before that of task second begins
Serial(first, second) ==
    LET r1 == get_elements_with_cache(c_start, UrlPlain, c_force[first], page_url,
                                      selector_map, now)
        r2 == get_elements_with_cache(r1.store, UrlPlain, c_force[second], page_url,
                                      selector_map, now)
    IN [store |-> r2.store, ret |-> (first :> <<r1.elements>>) @@ (second :> <<r2.elements>>)]

\* C25: once both tasks have returned, the set stored under the key in
\* memory and in the file, its version and the two sets returned are
\* those of one of the two serial executions.
C25_PerKeySerialization ==
    (\A t \in Tasks : c_pc[t] = "done")
    => \E o \in {<<1, 2>>, <<2, 1>>} :
          LET serial == Serial(o[1], o[2])
          IN /\ cache = serial.store.cache
             /\ cache_files = serial.store.cache_files
             /\ metadata = serial.store.metadata
             /\ c_ret = serial.ret

----------------------------------------------------------------------------
(* validate_cache on a cached set in its insertion order *)

\* the orders in which a dict may hold the handles: those of a snapshot, and
\* those update_cache_with_diff leaves when it appends added handles
SampleOrders ==
    UNION {{order \in [1..n -> Handles] :
               \A i, j \in 1..n : order[i] = order[j] => i = j} : n \in 0..3}

\* line 179: the keys validate_cache looks up
Samples == _select_validation_samples(v_indices, v_size)

InitSample ==
    /\ StoreInit /\ KeyIdle /\ ResolveIdle /\ PeerIdle /\ TaskIdle
    /\ LookupIdle /\ ActionIdle /\ InstIdle
    /\ v_size \in 1..MaxElements
    /\ v_indices \in SampleOrders
    /\ v_count = Len(v_indices)
    /\ v_live \in [Handles -> LookupOutcomes]
    /\ v_pc = "loop" /\ v_outcomes = <<>> /\ valid_count = 0 /\ v_result = FALSE
    /\ d_old = EmptyDict /\ d_fresh = EmptyDict /\ d_out = <<>>
    /\ m_old = <<>> /\ m_new = <<>> /\ m_out = <<>>

\* lines 182-195 for the next key of sample_indices: the lookup gives what
\* the live page holds for that entry
SampleLive ==
    /\ Len(v_outcomes) < Len(Samples)
    /\ ValidateSample(v_live[Samples[Len(v_outcomes) + 1]])

NextSample ==
    \/ SampleLive
    \/ ValidateReturn

SpecSample == InitSample /\ [][NextSample]_vars

\* C32: validate_cache looks up all entries of a set of at most
\* validation_sample_size entries and otherwise the first
\* validation_sample_size entries in insertion order; its result is decided
\* by the live state of these entries alone, as the ratio of those found to
\* those looked up, and is false for the empty set.
C32_ValidationSample ==
    LET n == IF Len(v_indices) <= v_size THEN Len(v_indices) ELSE v_size
        found == Cardinality({i \in 1..n : v_live[v_indices[i]] = "found"})
    IN /\ Len(v_outcomes) <= n
       /\ \A i \in 1..Len(v_outcomes) : v_outcomes[i] = v_live[v_indices[i]]
       /\ v_pc = "done" => /\ Len(v_outcomes) = n
                           /\ v_result = (n > 0 /\ 10 * found >= 7 * n)

\* three entries, the handle inserted last is the smallest and is gone from
\* the page; the two sampled entries are found and the set is valid
C32_Witness ==
    /\ v_pc = "done" /\ v_size = 2
    /\ v_indices = <<"2", "3", "1">>
    /\ v_live["1"] = "missing"
    /\ v_outcomes = <<"found", "found">>
    /\ v_result

----------------------------------------------------------------------------
(* ExtendedBrowserContext.get_dom_element_by_index_with_cache *)

\* lines 80-97: the DOMElementNode built from a cached entry; the entry of
\* _fetch_fresh_elements has no key xpath, is_interactive, is_in_viewport
\* or highlight_index, so these take the defaults of the .get calls
NodeFromCache(element_data, index) ==
    [tag_name |-> ParamGet(element_data, "tag_name", "div"),
     xpath |-> ParamGet(element_data, "xpath", ""),
     attributes |-> ParamGet(element_data, "attributes", EmptyDict),
     is_visible |-> ParamGet(element_data, "is_visible", TRUE),
     is_interactive |-> ParamGet(element_data, "is_interactive", TRUE),
     is_in_viewport |-> ParamGet(element_data, "is_in_viewport", TRUE),
     highlight_index |-> ParamGet(element_data, "highlight_index", index)]

\* what the get_dom_element_by_index of BrowserContext, saved in line 56,
\* may answer for the index: the node of the selector_map, or an exception
OriginalAnswers(smap, index) ==
    {[kind |-> "raise", node |-> <<>>]}
    \cup (IF index \in DOMAIN smap THEN {[kind |-> "node", node |-> <<smap[index]>>]}
          ELSE {})

\* a lookup that asks the original method also on a hit
LookupWithCache_AlwaysLive(cached_elements, index, answer) ==
    IF IndexStr[index] \in DOMAIN cached_elements
    THEN [kind |-> "cache", original_calls |-> 1,
          node |-> <<NodeFromCache(cached_elements[IndexStr[index]], index)>>]
    ELSE [kind |-> "original", original_calls |-> 1, node |-> answer.node,
          raised |-> answer.kind = "raise"]

\* lines 78-106 once get_elements_with_cache has returned cached_elements
LookupWithCache(cached_elements, index, answer) ==
    IF IndexStr[index] \in DOMAIN cached_elements
    THEN [kind |-> "cache", original_calls |-> 0,
          node |-> <<NodeFromCache(cached_elements[IndexStr[index]], index)>>]
    ELSE [kind |-> "original", original_calls |-> 1, node |-> answer.node,
          raised |-> answer.kind = "raise"]

\* await context.get_dom_element_by_index_with_cache(index): the URL of the
\* page is read (line 75), the manager is asked (line 78), and the node
\* comes from its answer or from the original method; an exception of the
\* manager leaves the call
GetWithCache(index, env, answer) ==
    LET r == get_elements_with_cache([StoreState EXCEPT !.env = env], page_url, FALSE,
                                     page_url, selector_map, now)
        key == ReadKey(page_url, page_url)
    IN /\ \A k \in DOMAIN r.store.metadata : r.store.metadata[k].version <= MaxVersion
       /\ SetStore(r.store)
       /\ last' = [op |-> "get", url |-> page_url, force_refresh |-> FALSE,
                   key |-> key, path |-> r.path, elements |-> r.elements,
                   snapshots |-> r.snapshots, put_keys |-> r.put_keys,
                   raised |-> r.raised, env |-> env,
                   params |-> _extract_url_params(page_url)]
       /\ observed' = <<key, VersionOf(r.store.metadata, key)>>
       /\ x_index' = index
       /\ x_out' = IF r.raised
                   THEN <<[kind |-> "raised", original_calls |-> 0, node |-> <<>>]>>
                   ELSE <<LookupWithCache(r.elements, index, answer)>>
       /\ UNCHANGED <<now, pageVars, validateVars, diffVars, modVars, keyVars, peerVars,
                      taskVars, sampleVars, instVars, actionVars, resolveVars>>

NextLookup ==
    \/ \E index \in 1..3, env \in {EnvOk} \cup BrowserFaults :
          \E answer \in OriginalAnswers(selector_map, index) :
             GetWithCache(index, env, answer)
    \/ \E smap \in SelectorMaps : PageChanges(smap)

SpecLookup == Init /\ [][NextLookup]_vars

\* C33: a lookup for which the manager returned a set gives the node built
\* from the entry of that set under str(index), without a call of the
\* original method, exactly when the set has that key; otherwise it calls
\* the original method once and gives what that call gave.
C33_CachedLookup ==
    [][(last'.op = "get" /\ ~last'.raised)
       => LET out == x_out'[1]
              h == IndexStr[x_index']
          IN IF h \in DOMAIN last'.elements
             THEN /\ out.kind = "cache" /\ out.original_calls = 0
                  /\ out.node = <<NodeFromCache(last'.elements[h], x_index')>>
                  /\ out.node[1].tag_name = last'.elements[h].tag_name
                  /\ out.node[1].attributes = last'.elements[h].attributes
             ELSE /\ out.kind = "original" /\ out.original_calls = 1
                  /\ out.node \in {a.node : a \in OriginalAnswers(selector_map, x_index')}]_vars

\* the cached set was valid and returned as it is, the page has gained an
\* element the set does not hold, and the original method gave its node
C33_Witness ==
    /\ last.op = "get" /\ ~last.raised /\ last.path = "valid"
    /\ x_index = 2 /\ "2" \notin DOMAIN last.elements
    /\ x_out[1].kind = "original" /\ x_out[1].original_calls = 1
    /\ 2 \in DOMAIN selector_map
    /\ x_out[1].node = <<selector_map[2]>>

----------------------------------------------------------------------------
(* The actions that locate an element before they act on it *)

\* ElementHelper.resilient_locate on a page that stays as it is during the
\* call and whose live operations answer as env tells: every round gives
\* what the first round gives
resilient_locate(params, smap, max_attempts, env) ==
    LET index == ParamGet(params, "index", "")
        strat == strategies(params)
        hits == {p \in 1..Len(strat) : InvokeOn(strat[p], params, smap, env).kind = "index"}
        first == CHOOSE p \in hits : \A q \in hits : p <= q
    IN IF /\ "index" \in DOMAIN params /\ index \in DOMAIN IntOf
          /\ get_element(smap, IntOf[index], env.get_state) # <<>>
       THEN <<IntOf[index]>>
       ELSE IF strat = <<>> \/ max_attempts <= 0 \/ hits = {} THEN <<>>
       ELSE <<InvokeOn(strat[first], params, smap, env).index>>

\* the fields of the params model of each action that resilient_locate reads
ActionFields ==
    ("click" :> {"index", "selector", "text", "role"})
    @@ ("input" :> {"index", "selector", "text"})
    @@ ("diagnostic" :> {"index", "selector", "text"})

\* params.dict(exclude_unset=True) of the calls of each action: the index
\* is that of the button, one no page holds, or not given
ActionParams(action) ==
    {params \in LiveDescriptions \cup {("index" :> "7") @@ d : d \in LiveDescriptions} :
        DOMAIN params \subseteq ActionFields[action]}

\* the locating part of the three actions (lines 421-435, 883-893,
\* 1044-1054): resilient_locate is called only when params.index is None;
\* an index that is given is looked up with get_element and nothing else
LocateForAction(action, params, smap, env) ==
    LET given == "index" \in DOMAIN params
        index == IF given THEN <<IntOf[params["index"]]>>
                 ELSE resilient_locate(params, smap, MaxAttempts, env)
    IN IF action = "input" /\ ParamGet(params, "text", "") = ""
       THEN [located |-> <<>>, error |-> "no_text"]
       ELSE IF action = "diagnostic" /\ env.get_current_page = "raise"
       THEN [located |-> <<>>, error |-> "exception"]
       ELSE IF index = <<>>
       THEN [located |-> <<>>, error |-> "all_locate_methods_failed"]
       ELSE IF get_element(smap, index[1], env.get_state) = <<>>
       THEN [located |-> <<>>, error |-> "element_not_found"]
       ELSE [located |-> index, error |-> "none"]

InitAction ==
    /\ StoreInit /\ PureInit
    /\ a_out = <<>>

\* one call of an action: the element is located, and the click, the input
\* or the diagnosis of the located element succeeds or fails
ActionCall(action, params, env, acted) ==
    LET loc == LocateForAction(action, params, selector_map, env)
    IN /\ a_out' = <<[action |-> action, params |-> params, located |-> loc.located,
                      error |-> IF loc.error = "none" /\ ~acted THEN "all_methods_failed"
                                ELSE loc.error,
                      success |-> loc.error = "none" /\ acted]>>
       /\ UNCHANGED <<mainVars, validateVars, diffVars, modVars, keyVars, peerVars,
                      taskVars, sampleVars, instVars, lookupVars, resolveVars>>

\* the page changes between two calls
ActionPageChanges(smap) ==
    /\ smap # selector_map
    /\ selector_map' = smap
    /\ UNCHANGED <<storeVars, now, page_url, last, observed, validateVars, diffVars,
                   modVars, keyVars, peerVars, taskVars, sampleVars, instVars, lookupVars,
                   actionVars, resolveVars>>

NextAction ==
    \/ \E action \in DOMAIN ActionFields, env \in {PageOk} \cup PageFaults,
          acted \in BOOLEAN :
          \E params \in ActionParams(action) : ActionCall(action, params, env, acted)
    \/ \E smap \in LivePages : ActionPageChanges(smap)

SpecAction == InitAction /\ [][NextAction]_vars

\* C34: an action called with an index the page does not hold, and with a
\* selector, a role or a text that resilient_locate resolves on that page,
\* locates the element resilient_locate returns for the same description.
C34_ActionFallThrough ==
    [][(/\ a_out' # a_out
        /\ "index" \in DOMAIN a_out'[1].params
        /\ IntOf[a_out'[1].params["index"]] \notin DOMAIN selector_map
        /\ a_out'[1].error # "no_text"
        /\ resilient_locate(a_out'[1].params, selector_map, MaxAttempts, PageOk) # <<>>)
       => a_out'[1].located
          = resilient_locate(a_out'[1].params, selector_map, MaxAttempts, PageOk)]_vars

----------------------------------------------------------------------------
(* getElements whose snapshot fails *)

\* the step is a getElements call that ended with the exception of
\* get_state in _fetch_fresh_elements
SnapshotFailed ==
    /\ last'.op = "get" /\ last'.raised
    /\ last'.env.get_state = "raise"
    /\ last'.path \in {"refresh", "empty", "diff"}

\* C35 as stated: a getElements call whose snapshot fails on the refresh,
\* the empty-cache or the diff path leaves the memory tier, the index and
\* the files of every key as they were before the call.
C35_SnapshotFailureUnchanged ==
    [][SnapshotFailed
       => /\ cache' = cache
          /\ metadata' = metadata
          /\ metadata_file' = metadata_file
          /\ cache_files' = cache_files]_vars

\* C35 amended: such a call leaves the index and the files of every key as
\* they were, and the memory tier too, except that the set held by the
\* file of the key of the call may have been loaded into it by the
\* get_elements that precedes the snapshot.
C35_SnapshotFailureNoWrite ==
    [][SnapshotFailed
       => /\ metadata' = metadata
          /\ metadata_file' = metadata_file
          /\ cache_files' = cache_files
          /\ DOMAIN cache \subseteq DOMAIN cache'
          /\ \A k \in DOMAIN cache' :
                IF k \in DOMAIN cache THEN cache'[k] = cache[k]
                ELSE /\ k = last'.key
                     /\ k \in DOMAIN cache_files
                     /\ "elements" \in DOMAIN cache_files[k]
                     /\ cache'[k] = cache_files[k].elements]_vars

\* the snapshot of the diff path failed: the cached set was read, found
\* invalid on the page, and get_state raised
C35_Witness ==
    /\ last.op = "get" /\ last.raised /\ last.path = "diff"
    /\ last.env.get_state = "raise"
    /\ last.key \in DOMAIN cache /\ last.key \in DOMAIN metadata
    /\ metadata[last.key].version = 1

----------------------------------------------------------------------------
(* getElements(url) while the browser is on this page or another *)

\* a second site, and what each URL shows
UrlOther == Url("y", <<>>)
ScopeUrls == {UrlPlain, UrlOther}
PageOf == [u \in ScopeUrls |-> IF u = UrlPlain THEN PageFull ELSE PageEdited]

InitScope ==
    /\ cache = EmptyDict /\ metadata = EmptyDict
    /\ metadata_file = <<>> /\ cache_files = EmptyDict
    /\ now = 0 /\ last = Idle("init") /\ observed = <<>>
    /\ page_url \in ScopeUrls
    /\ selector_map = PageOf[page_url]
    /\ PureInit

\* the browser goes to another URL and shows its page
ScopeNavigate(u) ==
    /\ u # page_url
    /\ page_url' = u
    /\ selector_map' = PageOf[u]
    /\ last' = Idle("page")
    /\ UNCHANGED <<storeVars, now, observed, validateVars, diffVars, modVars, keyVars,
                   peerVars, taskVars, sampleVars, instVars, actionVars, lookupVars, resolveVars>>

\* one turn of the loop of initialize_cache (lines 134-141): page.goto(url)
\* ends on the URL itself or on the one it redirects to, then
\* get_elements_with_cache(url, force_refresh=True)
InitializeCache(url, landed) ==
    LET r == get_elements_with_cache(StoreState, url, TRUE, landed, PageOf[landed], now)
        key == ReadKey(url, landed)
    IN /\ \A k \in DOMAIN r.store.metadata : r.store.metadata[k].version <= MaxVersion
       /\ page_url' = landed
       /\ selector_map' = PageOf[landed]
       /\ SetStore(r.store)
       /\ last' = [op |-> "get", url |-> url, force_refresh |-> TRUE,
                   key |-> key, path |-> r.path, elements |-> r.elements,
                   snapshots |-> r.snapshots, put_keys |-> r.put_keys,
                   raised |-> r.raised, env |-> EnvOk,
                   params |-> _extract_url_params(landed)]
       /\ observed' = <<key, VersionOf(r.store.metadata, key)>>
       /\ UNCHANGED <<now, validateVars, diffVars, modVars, keyVars, peerVars,
                      taskVars, sampleVars, instVars, actionVars, lookupVars, resolveVars>>

NextScope ==
    \/ \E url \in ScopeUrls, force_refresh \in BOOLEAN :
          GetElements(url, force_refresh, EnvOk)
    \/ \E url \in ScopeUrls, landed \in ScopeUrls : InitializeCache(url, landed)
    \/ \E u \in ScopeUrls : ScopeNavigate(u)

SpecScope == InitScope /\ [][NextScope]_vars

\* C36: the set the store holds under the cache key of a URL, in the memory
\* tier and in the file, is a snapshot of the page that URL shows, never
\* that of the page of another URL.
C36_PageScoping ==
    \A u \in ScopeUrls :
        LET k == _generate_cache_key(u, _extract_url_params(u))
        IN /\ k \in DOMAIN cache => cache[k] = _fetch_fresh_elements(PageOf[u])
           /\ (k \in DOMAIN cache_files /\ "elements" \in DOMAIN cache_files[k])
              => cache_files[k].elements = _fetch_fresh_elements(PageOf[u])

----------------------------------------------------------------------------
(* The work of one getElements call *)

\* one manager on one key, with a clock, a page that changes, a browser
\* whose awaits may raise, and a store that may be reopened
NextWork ==
    \/ \E force_refresh \in BOOLEAN, env \in {EnvOk} \cup BrowserFaults :
          GetElements(UrlPlain, force_refresh, env)
    \/ NewInstance(EnvOk)
    \/ \E d \in {cache_ttl, cache_ttl + 1} : Tick(d)
    \/ \E smap \in {PageFull, PageEdited} : PageChanges(smap)

SpecWork == Init /\ [][NextWork]_vars

\* the keys whose index record has another version after the step: each
\* store_elements raises the version of its key by one
KeysPut == {k \in DOMAIN metadata' : VersionOf(metadata', k) # VersionOf(metadata, k)}

\* C37: one getElements call takes at most one snapshot and puts at most
\* once, on the forced and the TTL refresh, the empty-cache, the valid and
\* the diff path; and it puts only when its own snapshot was taken and
\* succeeded.
C37_BoundedWork ==
    [][last'.op = "get"
       => /\ last'.snapshots <= 1
          /\ Len(last'.put_keys) <= 1
          /\ Cardinality(KeysPut) <= 1
          /\ \A k \in KeysPut : /\ VersionOf(metadata', k) = VersionOf(metadata, k) + 1
                                 /\ last'.put_keys = <<k>>
          /\ (KeysPut # {} \/ last'.put_keys # <<>>)
             => /\ last'.snapshots = 1
                /\ ~last'.raised
                /\ last'.env.get_state = "ok"
          /\ KeysPut = {} => /\ metadata' = metadata /\ cache_files' = cache_files
          /\ last'.path = "valid" => last'.snapshots = 0 /\ KeysPut = {}]_vars

\* a diff-merge after the TTL refresh of an earlier call: one snapshot, one
\* put, version 2
C37_Witness ==
    /\ last.op = "get" /\ last.path = "diff"
    /\ last.snapshots = 1 /\ last.put_keys = <<last.key>>
    /\ metadata[last.key].version = 2
    /\ now > cache_ttl

----------------------------------------------------------------------------
(* Two ElementCache instances on one cache directory *)

\* the entry test_initial_caching builds for one element (test_cache.py:78-86)
TestEntry(element) ==
    [tag_name |-> element.tag_name,
     text |-> element.text,
     attributes |-> element.attributes,
     xpath |-> element.xpath,
     is_interactive |-> element.is_interactive,
     is_visible |-> element.is_visible,
     is_in_viewport |-> TRUE]

\* the dict test_initial_caching stores: cached_elements[index] with the int
\* index of selector_map.items() (test_cache.py:77-87)
TestSet(smap) ==
    [h \in {IntHandle[i] : i \in DOMAIN smap} |->
        TestEntry(smap[CHOOSE i \in DOMAIN smap : IntHandle[i] = h])]

\* the sets the callers of store_elements pass: the one of
\* _fetch_fresh_elements, keyed by str(index), and the one of the test
SharedSets == {_fetch_fresh_elements(PageEdited), TestSet(PageEdited)}

\* the second instance with the directory it shares
StoreStateB == [cache |-> b_cache, metadata |-> b_metadata,
                metadata_file |-> metadata_file, cache_files |-> cache_files,
                env |-> EnvOk]

InitShared ==
    /\ StoreInit
    /\ KeyIdle /\ ResolveIdle /\ PeerIdle /\ TaskIdle /\ SampleIdle /\ ActionIdle /\ LookupIdle
    /\ v_size = validation_sample_size /\ v_count = 0 /\ v_pc = "idle"
    /\ v_outcomes = <<>> /\ valid_count = 0 /\ v_result = FALSE
    /\ d_old = EmptyDict /\ d_fresh = EmptyDict /\ d_out = <<>>
    /\ m_old = <<>> /\ m_new = <<>> /\ m_out = <<>>
    /\ b_cache = EmptyDict /\ b_metadata = EmptyDict /\ b_out = <<>>

\* ElementCache(cache_dir) in a second process: lines 20-27 and _load_metadata
OpenB ==
    /\ b_cache' = EmptyDict
    /\ b_metadata' = _load_metadata(metadata_file, "ok")
    /\ b_out' = <<>>
    /\ last' = Idle("open_b")
    /\ UNCHANGED <<storeVars, now, pageVars, observed, validateVars, diffVars, modVars,
                   keyVars, peerVars, taskVars, sampleVars, actionVars, lookupVars,
                   resolveVars>>

\* ElementCache(cache_dir).get_elements(url, params): a new instance is
\* opened on the directory and asked at once
ReopenGetB(url, params) ==
    LET fresh == [StoreStateB EXCEPT !.cache = EmptyDict,
                                     !.metadata = _load_metadata(metadata_file, "ok")]
        r == get_elements(fresh, url, params)
    IN /\ b_cache' = r.store.cache
       /\ b_metadata' = fresh.metadata
       /\ b_out' = <<[key |-> _generate_cache_key(url, params),
                      elements |-> r.elements,
                      info |-> get_cache_info(fresh, url, params)]>>
       /\ last' = [Idle("reopen_get_b") EXCEPT !.url = url, !.params = params,
                                               !.key = _generate_cache_key(url, params)]
       /\ UNCHANGED <<storeVars, now, pageVars, observed, validateVars, diffVars, modVars,
                      keyVars, peerVars, taskVars, sampleVars, actionVars, lookupVars,
                      resolveVars>>

\* store_elements(url, elements, params) of the second instance
PutB(url, params, elements) ==
    LET s == store_elements(StoreStateB, url, elements, params, now)
        key == _generate_cache_key(url, params)
    IN /\ s.metadata[key].version <= MaxVersion
       /\ b_cache' = s.cache
       /\ b_metadata' = s.metadata
       /\ metadata_file' = s.metadata_file
       /\ cache_files' = s.cache_files
       /\ last' = [Idle("put_b") EXCEPT !.url = url, !.key = key, !.params = params,
                                        !.elements = elements, !.put_keys = <<key>>]
       /\ UNCHANGED <<cache, metadata, now, pageVars, observed, validateVars, diffVars,
                      modVars, keyVars, peerVars, taskVars, sampleVars, actionVars,
                      lookupVars, b_out, resolveVars>>

NextShared ==
    \/ \E params \in ParamDicts, elements \in SharedSets : Put(UrlPlain, params, elements, EnvOk)
    \/ \E params \in ParamDicts, elements \in SharedSets : PutB(UrlPlain, params, elements)
    \/ OpenB
    \/ \E params \in ParamDicts : ReopenGetB(UrlPlain, params)

SpecShared == InitShared /\ [][NextShared]_vars

\* C38: a new instance opened on the directory right after a put(K, S)
\* that met no I/O error returns from get(K) the set S, with the handles
\* and the records of S, and from metadata(K) the timestamp, the element
\* count and the version the writing instance holds.
C38_DurableRoundTrip ==
    [][(/\ last.op = "put" /\ last.env = EnvOk
        /\ last'.op = "reopen_get_b" /\ last'.key = last.key)
       => /\ b_out'[1].elements = last.elements
          /\ b_out'[1].info = <<metadata[last.key]>>]_vars

\* the keys the two instances can hold
SharedKeys == {_generate_cache_key(UrlPlain, params) : params \in ParamDicts}

\* C39: a put(K1, S) by either instance that met no I/O error leaves, for
\* every other key K2, the memory tier of both instances, the durable
\* per-key record and the index record (in memory and in the shared index
\* file) unchanged.
C39_KeyIsolation ==
    [][(\/ last'.op = "put" /\ last'.env = EnvOk /\ ~last'.raised
        \/ last'.op = "put_b")
       => \A K2 \in SharedKeys \ {last'.key} :
             /\ DictGet(cache', K2) = DictGet(cache, K2)
             /\ DictGet(b_cache', K2) = DictGet(b_cache, K2)
             /\ DictGet(cache_files', K2) = DictGet(cache_files, K2)
             /\ DictGet(metadata', K2) = DictGet(metadata, K2)
             /\ DictGet(b_metadata', K2) = DictGet(b_metadata, K2)
             /\ DurableIndex(metadata_file', K2) = DurableIndex(metadata_file, K2)]_vars

====
